---- MODULE Spec2Model ----
(***************************************************************************)
(* Model of the API clients of tundra-connect: the OpenExchange and the    *)
(* Surepass connects, their response handlers (OpenExchange.__handle,      *)
(* Surepass.__checkAPIResponse), their error classes (OpenExchangeError,   *)
(* SurepassError) and the response schemas the handlers validate against.  *)
(*                                                                         *)
(* A JSON value is a record [t, s, n, b]: t is its JavaScript type, s its  *)
(* text (for a string) or the shape of its content (for an object or an    *)
(* array), n its number, b its boolean.  Numbers are integers.             *)
(***************************************************************************)
EXTENDS Integers, Sequences, FiniteSets, TLC

\* Number of operations one client session performs.
MaxCalls == 2

\* Latest reading of the clock an error's timeStamp is taken from.
MaxTime == 1

(***************************************************************************)
(* JSON values                                                             *)
(***************************************************************************)
Absent == [t |-> "absent", s |-> "", n |-> 0, b |-> FALSE]
Null == [t |-> "null", s |-> "", n |-> 0, b |-> FALSE]
Str(x) == [t |-> "string", s |-> x, n |-> 0, b |-> FALSE]
Num(x) == [t |-> "number", s |-> "", n |-> x, b |-> FALSE]
Bool(x) == [t |-> "boolean", s |-> "", n |-> 0, b |-> x]
Obj(shape) == [t |-> "object", s |-> shape, n |-> 0, b |-> FALSE]
Arr(shape) == [t |-> "array", s |-> shape, n |-> 0, b |-> FALSE]

\* A field of an object schema: its type, whether it is required, its check.
Req(type, chk) == [t |-> type, req |-> TRUE, chk |-> chk]
Opt(type, chk) == [t |-> type, req |-> FALSE, chk |-> chk]

\* The vendor error messages the error schema accepts.
ErrorMessages ==
  {"not_found", "missing_app_id", "invalid_app_id", "not_allowed",
   "access_restricted", "invalid_base"}

\* The status codes the error schema accepts.
ErrorStatuses == {400, 401, 403, 404, 429}

\* Strings of the bounded input space that match the schemas' patterns.
PanPattern == {"BNZAA2318J", "ABCDE1234F"}
AadhaarPattern == {"123456789012"}
DatePattern == {"1990-01-01", "2000-01-01"}

\* The constraint a guard puts on a value of the right type.
CheckOk(chk, v) ==
  CASE chk = "any" -> TRUE
    [] chk = "min5" -> Len(v.s) >= 5
    [] chk = "len3" -> Len(v.s) = 3
    [] chk = "notEmpty" -> Len(v.s) > 0
    [] chk = "min0" -> v.n >= 0
    [] chk = "positive" -> v.n > 0
    [] chk = "isTrue" -> v.b = TRUE
    [] chk = "errStatus" -> v.n \in ErrorStatuses
    [] chk = "errMessage" -> v.s \in ErrorMessages
    [] chk = "activity" -> v.s \in {"ACTIVE", "INACTIVE"}
    [] chk = "gender" -> v.s \in {"M", "F", "T", "O"}
    [] chk = "pan" -> v.s \in PanPattern
    [] chk = "aadhaar" -> v.s \in AadhaarPattern
    [] chk = "date" -> v.s \in DatePattern
    [] chk = "rates" -> v.s \in {"rates", "empty"}
    [] chk = "ratesByDate" -> v.s \in {"ratesByDate", "empty"}
    [] chk = "ohlc" -> v.s \in {"ohlc", "empty"}
    [] OTHER -> v.s = chk

\* One field against its guard: an optional field may be absent or null.
FieldOk(spec, v) ==
  IF v.t \in {"absent", "null"}
  THEN ~spec.req
  ELSE v.t = spec.t /\ CheckOk(spec.chk, v)

\* Guardian.object().schema(fields) applied to the fields f of an object:
\* every declared field is checked, undeclared fields are not.
SchemaOk(fields, f) ==
  \A k \in DOMAIN fields :
    FieldOk(fields[k], IF k \in DOMAIN f THEN f[k] ELSE Absent)

\* Guardian.object().keyValue(string of length 3, non-empty string).
KeyValueOk(f) ==
  \A k \in DOMAIN f :
    f[k].t # "absent" => (Len(k) = 3 /\ f[k].t = "string" /\ Len(f[k].s) > 0)

(***************************************************************************)
(* Text the code changes character by character: a sequence of characters  *)
(***************************************************************************)
LowerCaseLetters ==
  <<"a", "b", "c", "d", "e", "f", "g", "h", "i", "j", "k", "l", "m", "n",
    "o", "p", "q", "r", "s", "t", "u", "v", "w", "x", "y", "z">>

UpperCaseLetters ==
  <<"A", "B", "C", "D", "E", "F", "G", "H", "I", "J", "K", "L", "M", "N",
    "O", "P", "Q", "R", "S", "T", "U", "V", "W", "X", "Y", "Z">>

Digits == <<"0", "1", "2", "3", "4", "5", "6", "7", "8", "9">>

\* One character of String.prototype.toUpperCase().
UpperCaseChar(c) ==
  IF \E i \in DOMAIN LowerCaseLetters : LowerCaseLetters[i] = c
  THEN UpperCaseLetters[CHOOSE i \in DOMAIN LowerCaseLetters :
                          LowerCaseLetters[i] = c]
  ELSE c

\* A toUpperCase() that leaves the text as it is.
ToUpperCaseUnchanged(text) == text

\* text.toUpperCase()
ToUpperCase(text) == [i \in DOMAIN text |-> UpperCaseChar(text[i])]

\* text.trim()
RECURSIVE TrimStart(_)
TrimStart(text) ==
  IF text # <<>> /\ Head(text) = " " THEN TrimStart(Tail(text)) ELSE text

RECURSIVE TrimEnd(_)
TrimEnd(text) ==
  IF text # <<>> /\ text[Len(text)] = " "
  THEN TrimEnd(SubSeq(text, 1, Len(text) - 1))
  ELSE text

Trim(text) == TrimEnd(TrimStart(text))

\* list.join(',')
RECURSIVE Join(_)
Join(list) ==
  IF list = <<>> THEN <<>>
  ELSE IF Len(list) = 1 THEN Head(list)
  ELSE Head(list) \o <<",">> \o Join(Tail(list))

\* amount.toString() of a natural number.
RECURSIVE NumberToString(_)
NumberToString(n) ==
  IF n < 10 THEN <<Digits[n + 1]>>
  ELSE NumberToString(n \div 10) \o <<Digits[(n % 10) + 1]>>

\* A text as a metadata value.
Text(chars) == [t |-> "string", s |-> "", n |-> 0, b |-> FALSE, chars |-> chars]

(***************************************************************************)
(* OpenExchange schemas                                                    *)
(***************************************************************************)
ErrorSchemaObject ==
  [error |-> Req("boolean", "isTrue"),
   status |-> Req("number", "errStatus"),
   message |-> Req("string", "errMessage"),
   description |-> Req("string", "any")]

UsageResponseSchemaObject ==
  [status |-> Req("number", "any"),
   data |-> Req("object", "statusData"),
   usage |-> Req("object", "usage")]

LatestRatesSchemaObject ==
  [disclaimer |-> Opt("string", "min5"),
   license |-> Opt("string", "min5"),
   timestamp |-> Opt("number", "min0"),
   base |-> Opt("string", "len3"),
   rates |-> Req("object", "rates")]

HistoricalRatesSchemaObject ==
  [disclaimer |-> Opt("string", "min5"),
   license |-> Opt("string", "min5"),
   timestamp |-> Req("number", "min0"),
   historical |-> Req("boolean", "isTrue"),
   base |-> Opt("string", "len3"),
   rates |-> Req("object", "rates")]

TimeSeriesSchemaObject ==
  [disclaimer |-> Opt("string", "min5"),
   license |-> Opt("string", "min5"),
   start_date |-> Req("string", "any"),
   end_date |-> Req("string", "any"),
   base |-> Req("string", "len3"),
   rates |-> Req("object", "ratesByDate")]

OHLCSchemaObject ==
  [disclaimer |-> Opt("string", "min5"),
   license |-> Opt("string", "min5"),
   start_date |-> Req("string", "any"),
   end_date |-> Req("string", "any"),
   base |-> Opt("string", "len3"),
   rates |-> Req("object", "ohlc")]

ConvertRequestSchemaObject ==
  [disclaimer |-> Opt("string", "min5"),
   license |-> Opt("string", "min5"),
   query |-> Req("object", "query"),
   info |-> Req("object", "info"),
   historical |-> Opt("boolean", "any"),
   date |-> Opt("string", "any"),
   result |-> Req("number", "min0")]

(***************************************************************************)
(* Surepass schemas                                                        *)
(***************************************************************************)
SurepassResponseSchema ==
  [status_code |-> Opt("number", "any"),
   success |-> Opt("boolean", "any"),
   message |-> Opt("string", "any"),
   message_code |-> Opt("string", "any"),
   data |-> Opt("object", "any")]

SurepassNameMatchSchema ==
  [client_id |-> Req("string", "any"),
   name_1 |-> Req("string", "any"),
   name_2 |-> Req("string", "any"),
   match_score |-> Req("number", "any"),
   match_status |-> Req("boolean", "any")]

SurepassBankVerificationSchema ==
  [client_id |-> Req("string", "any"),
   account_exists |-> Req("boolean", "any"),
   upi_id |-> Opt("string", "any"),
   full_name |-> Req("string", "any"),
   imps_ref_no |-> Opt("string", "any"),
   remarks |-> Opt("string", "any"),
   status |-> Req("string", "any"),
   ifsc_details |-> Req("object", "ifscDetails")]

SurepassPanComprehensiveSchema ==
  [client_id |-> Req("string", "any"),
   pan_number |-> Req("string", "pan"),
   pan_details |-> Req("object", "panDetails")]

SurepassInitiateAadhaarVerificationSchema ==
  [client_id |-> Req("string", "any"),
   otp_sent |-> Req("boolean", "any"),
   if_number |-> Req("boolean", "any"),
   status |-> Opt("string", "any")]

SurepassAadhaarVerificationSchema ==
  [client_id |-> Req("string", "any"),
   aadhaar_number |-> Req("string", "aadhaar"),
   gender |-> Req("string", "gender"),
   dob |-> Req("string", "date"),
   full_name |-> Req("string", "any"),
   care_of |-> Opt("string", "any"),
   profile_image |-> Opt("string", "any"),
   share_code |-> Opt("string", "any"),
   zip_data |-> Req("string", "any"),
   raw_xml |-> Req("string", "any"),
   zip |-> Req("string", "any"),
   address |-> Req("object", "aadhaarAddress")]

SurepassCompanyDetailsSchema ==
  [client_id |-> Req("string", "any"),
   company_id |-> Req("string", "any"),
   company_type |-> Req("string", "any"),
   company_name |-> Req("string", "any"),
   details |-> Req("object", "companyDetails")]

SurepassGSTINDetailsSchema ==
  [client_id |-> Req("string", "any"),
   address_details |-> Req("object", "any"),
   gstin |-> Req("string", "any"),
   pan_number |-> Req("string", "any"),
   business_name |-> Req("string", "any"),
   legal_name |-> Req("string", "any"),
   center_jurisdiction |-> Req("string", "any"),
   state_jurisdiction |-> Req("string", "any"),
   date_of_registration |-> Req("string", "any"),
   constitution_of_business |-> Req("string", "any"),
   taxpayer_type |-> Req("string", "any"),
   gstin_status |-> Req("string", "any"),
   date_of_cancellation |-> Req("string", "any"),
   field_visit_conducted |-> Req("string", "any"),
   nature_bus_activities |-> Req("array", "strings"),
   nature_of_core_business_activity_code |-> Req("string", "any"),
   nature_of_core_business_activity_description |-> Req("string", "any"),
   aadhaar_validation |-> Req("string", "any"),
   aadhaar_validation_date |-> Req("string", "any"),
   filing_status |-> Req("array", "strings"),
   address |-> Req("string", "any"),
   hsn_info |-> Req("object", "any"),
   filing_frequency |-> Req("array", "strings")]

(***************************************************************************)
(* The operations of the two clients: the schema each validates against    *)
(* and the path it requests.                                               *)
(***************************************************************************)
OpenExchangeOps ==
  {"getStatus", "listCurrencies", "getRates", "getHistoricalRates",
   "getTimeSeries", "convert", "getOHLC"}

SurepassOps ==
  {"compareNames", "verifyBankAccount", "verifyPAN", "initiateAadhaar",
   "fetchAadhaar", "verifyCIN", "verifyGSTIN"}

\* The guard an operation hands to its response handler.
OpSchema(op) ==
  CASE op = "getStatus" -> UsageResponseSchemaObject
    [] op = "getRates" -> LatestRatesSchemaObject
    [] op = "getHistoricalRates" -> HistoricalRatesSchemaObject
    [] op = "getTimeSeries" -> TimeSeriesSchemaObject
    [] op = "convert" -> ConvertRequestSchemaObject
    [] op = "getOHLC" -> OHLCSchemaObject
    [] op = "compareNames" -> SurepassNameMatchSchema
    [] op = "verifyBankAccount" -> SurepassBankVerificationSchema
    [] op = "verifyPAN" -> SurepassPanComprehensiveSchema
    [] op = "initiateAadhaar" -> SurepassInitiateAadhaarVerificationSchema
    [] op = "fetchAadhaar" -> SurepassAadhaarVerificationSchema
    [] op = "verifyCIN" -> SurepassCompanyDetailsSchema
    [] op = "verifyGSTIN" -> SurepassGSTINDetailsSchema

\* A guard that only tells objects from other values and checks no field.
GuardValidateObjectOnly(op, value) == value.kind = "object"

\* guard.validate(value) of an operation: TRUE when it returns no error.
\* value is [kind, f]: null, a string, or an object with the fields f.
GuardValidate(op, value) ==
  /\ value.kind = "object"
  /\ IF op = "listCurrencies"
     THEN KeyValueOk(value.f)
     ELSE SchemaOk(OpSchema(op), value.f)

\* A string a guard converted with .toDate().
DateOf(v) == [t |-> "date", s |-> v.s, n |-> 0, b |-> FALSE]

\* The value guard.validate(value) returns next to no error: fields checked
\* with .toDate() are Date values.  Whether the fields the schema does not
\* declare are kept is Guardian's choice: strips tells which it is.
Validated(op, value, strips) ==
  IF op = "listCurrencies"
  THEN value
  ELSE LET schema == OpSchema(op)
           kept == IF strips
                   THEN DOMAIN value.f \cap DOMAIN schema
                   ELSE DOMAIN value.f
       IN  [value EXCEPT !.f =
              [k \in kept |->
                 IF k \in DOMAIN schema /\ schema[k].chk = "date"
                    /\ value.f[k].t = "string"
                 THEN DateOf(value.f[k])
                 ELSE value.f[k]]]

\* ErrorSchemaObject.validate(body): TRUE when it returns the body.
ErrorValidate(value) ==
  value.kind = "object" /\ SchemaOk(ErrorSchemaObject, value.f)

\* SurepassResponseSchema.validate(body): TRUE when it returns no error.
EnvelopeValidate(value) ==
  value.kind = "object" /\ SchemaOk(SurepassResponseSchema, value.f)

\* The path each Surepass operation requests and names in its catch block.
SurepassPath(op) ==
  CASE op = "compareNames" -> "utils/name-matching/"
    [] op = "verifyBankAccount" -> "bank-verification"
    [] op = "verifyPAN" -> "pan/pan-comprehensive-plus"
    [] op = "initiateAadhaar" -> "aadhaar-v2/generate-otp"
    [] op = "fetchAadhaar" -> "aadhaar-v2/submit-otp"
    [] op = "verifyCIN" -> "corporate/company-details"
    [] op = "verifyGSTIN" -> "corporate/gstin"

\* The endpoint each Surepass operation writes in its catch block.
SurepassCatchEndpoint(op) ==
  CASE op = "compareNames" -> "utils/name-matching/"
    [] op = "verifyBankAccount" -> "bank-verification"
    [] op = "verifyPAN" -> "pan/pan-comprehensive-plus"
    [] op = "initiateAadhaar" -> "aadhaar-v2/generate-otp"
    [] op = "fetchAadhaar" -> "aadhaar-v2/submit-otp"
    [] op = "verifyCIN" -> "corporate/company-details"
    [] op = "verifyGSTIN" -> "corporate/gstin"

(***************************************************************************)
(* Error classes                                                           *)
(***************************************************************************)
OpenExchangeErrorCodes ==
  [UNKNOWN_ERROR |-> "An unknown error occurred in Open Exchange.",
   MISSING_APP_ID |-> "Application ID is required for the API request.",
   CONFIG_INVALID_APP_ID |-> "Application ID must be a non-empty string.",
   CONFIG_INVALID_BASE_CURRENCY |->
     "Base currency must be a 3-character string, got ${baseCurrency}.",
   INVALID_APP_ID |->
     "Invalid application ID provided (expired or de-activated application id).",
   NOT_FOUND |-> "The requested resource was not found.",
   NOT_ALLOWED |->
     "This operation is not allowed with the current application ID.",
   RESPONSE_ERROR |->
     "Got an invalid response/response status: ${status} from Open Exchange API.",
   SERVICE_UNAVAILABLE |-> "Open Exchange service is currently unavailable."]

SurepassErrorCodes ==
  [UNHANDLED_ERROR |-> "An unhandled error occurred.",
   UNKNOWN_ERROR |-> "An unknown error occurred in Surepass.",
   RESPONSE_ERROR |->
     "Got an invalid response/response status: ${status}. Check details.",
   INVALID_TOKEN |->
     "The bearer token has either expired or is invalid or does not have access to this scope.",
   RATE_LIMIT_EXCEEDED |->
     "You have exceeded the rate limit for this API. Please try again later.",
   SERVICE_UNAVAILABLE |->
     "Surepass API's are down or facing issues. Please try again later.",
   VERIFICATION_FAILED |->
     "There is an issue with the data provided. Please re-check",
   PARSE_ERROR |->
     "The response from API did not match the expected format. See details for more information.",
   UNKNOWN_RESPONSE_ERROR |->
     "Received an unknown response status code from Surepass API."]

\* The table of codes of a vendor's error class.
ErrorCodes(vendor) ==
  IF vendor = "OpenExchange" THEN OpenExchangeErrorCodes ELSE SurepassErrorCodes

\* The class of a vendor's Domain Error.
ErrorClass(vendor) ==
  IF vendor = "OpenExchange" THEN "OpenExchangeError" ELSE "SurepassError"

\* Property names every object literal inherits from Object.prototype: the
\* lookup Codes[code] finds a (truthy) function under them.
ObjectPrototypeKeys ==
  {"constructor", "toString", "valueOf", "hasOwnProperty"}

\* Codes[code] as the constructor tests it: truthy or not.
CodeLookupTruthy(vendor, code) ==
  code \in DOMAIN ErrorCodes(vendor) \/ code \in ObjectPrototypeKeys

\* Metadata is a function from the keys it has to their values.
EmptyCtx == [k \in {} |-> Absent]

\* meta[k], undefined when the key is missing.
Get(m, k) == IF k \in DOMAIN m THEN m[k] ELSE Absent

\* meta[k] = v.
Set(m, k, v) == (k :> v) @@ m

\* Metadata argument of a constructor: supplied (an object) or undefined.
NoMeta == [given |-> FALSE, m |-> EmptyCtx]
Meta(m) == [given |-> TRUE, m |-> m]

NoCause == [type |-> "none", code |-> ""]
CauseOf(e) == [type |-> e.type, code |-> e.code]

NoError == [type |-> "none", code |-> "", context |-> EmptyCtx, cause |-> NoCause]

\* A raw, untyped error: thrown by the transport, by the language (TypeError)
\* or by the message-template replacement of BaseError.
RawError(type, text) ==
  [type |-> type, code |-> text, context |-> EmptyCtx, cause |-> NoCause]

NetworkError == RawError("Error", "Network error")
NullBodyTypeError == RawError("TypeError", "Cannot read properties of null")
CircularReferenceError ==
  RawError("Error", "Circular reference detected during variable replacement")

\* BaseError(message, meta, cause) as the subclasses use it: context is the
\* metadata, an empty object when none was passed.
BaseError(vendor, code, meta, cause) ==
  [type |-> ErrorClass(vendor),
   code |-> code,
   context |-> IF meta.given THEN meta.m ELSE EmptyCtx,
   cause |-> cause]

\* Building the message of an error whose metadata carries the JSON of a
\* GuardianError with field-level causes can end in "Circular reference
\* detected during variable replacement" instead of the error.
ReplacerMayThrow(meta) ==
  meta.given /\ Get(meta.m, "responseError") = Obj("composite")

\* new OpenExchangeError(code, meta, cause) / new SurepassError(code, meta,
\* cause): an unknown code becomes UNKNOWN_ERROR and is kept in
\* meta.originalCode.  replaced = FALSE is the run in which the message
\* replacement throws; the value is what the throw statement throws.
NewError(vendor, code, meta, cause, replaced) ==
  LET unknown == ~CodeLookupTruthy(vendor, code)
      meta1 == IF unknown
               THEN [given |-> TRUE,
                     m |-> Set(meta.m, "originalCode", Str(code))]
               ELSE meta
      code1 == IF unknown THEN "UNKNOWN_ERROR" ELSE code
  IN  IF ReplacerMayThrow(meta1) /\ ~replaced
      THEN CircularReferenceError
      ELSE BaseError(vendor, code1, meta1, cause)

\* The ${variable} references of the message a code stands for.
TemplateVariables(vendor, code) ==
  CASE code = "RESPONSE_ERROR" -> {"status"}
    [] vendor = "OpenExchange" /\ code = "CONFIG_INVALID_BASE_CURRENCY" ->
         {"baseCurrency"}
    [] OTHER -> {}

\* The message handed to super(): the text of the code with the values the
\* metadata has for its variables.  Under a name of Object.prototype the
\* table holds a function instead of a text.
MessageText(vendor, err) ==
  [template |-> IF err.code \in DOMAIN ErrorCodes(vendor)
                THEN ErrorCodes(vendor)[err.code]
                ELSE "function",
   values |-> [k \in TemplateVariables(vendor, err.code) |->
                 Get(err.context, k)]]

\* error.message as _messageTemplate renders it:
\* '[OpenExchange] ${timeStamp}: ${message}' / '[Surepass] ${timeStamp}: ...'.
RenderedMessage(vendor, err, timeStamp) ==
  [prefix |-> vendor,
   timeStamp |-> timeStamp,
   message |-> MessageText(vendor, err)]

(***************************************************************************)
(* Responses: [status, body]; a body is [kind, f, d]: null, a string, or   *)
(* an object with the fields f (d: the fields of a Surepass data object).  *)
(***************************************************************************)
NoFields == [k \in {} |-> Absent]
NullBody == [kind |-> "null", f |-> NoFields, d |-> NoFields]
StringBody == [kind |-> "string", f |-> NoFields, d |-> NoFields]
ObjectBody(f) == [kind |-> "object", f |-> f, d |-> NoFields]
EnvelopeBody(f, d) == [kind |-> "object", f |-> f, d |-> d]
NoBody == [kind |-> "undefined", f |-> NoFields, d |-> NoFields]

\* Outcome of a handler or of an operation.
NoOutcome == [kind |-> "none", data |-> NoBody, err |-> NoError]
Return(v) == [kind |-> "return", data |-> v, err |-> NoError]
Throw(e) == [kind |-> "throw", data |-> NoBody, err |-> e]

\* resp.body as a metadata value.
BodyValue(body) ==
  CASE body.kind = "null" -> Null
    [] body.kind = "string" -> Str("text")
    [] OTHER -> Obj("body")

\* (err as GuardianError).toJSON(): an object that failed field checks gives
\* an error with one cause per field, anything else a single type error.
GuardianErrorJSON(body) ==
  IF body.kind = "object" THEN Obj("composite") ELSE Obj("leaf")

\* error.listCauses() of a GuardianError.
ListCauses(body) ==
  IF body.kind = "object" THEN Arr("causes") ELSE Arr("cause")

\* body.prop of a response body: undefined on a string or on a missing key.
Prop(body, k) ==
  IF body.kind = "object" /\ k \in DOMAIN body.f THEN body.f[k] ELSE Absent

(***************************************************************************)
(* OpenExchange.__handle                                                   *)
(***************************************************************************)
\* The switch on body.message of a body the error schema accepted.
OpenExchangeMessageCode(message) ==
  CASE message = "not_found" -> "NOT_FOUND"
    [] message = "missing_app_id" -> "MISSING_APP_ID"
    [] message = "invalid_app_id" -> "INVALID_APP_ID"
    [] message \in {"not_allowed", "access_restricted"} -> "NOT_ALLOWED"
    [] OTHER -> "RESPONSE_ERROR"

\* A switch whose error cases lack 429.
OpenExchangeErrorCasesWithout429 == {401, 400, 403, 404}

\* The statuses __handle treats as vendor errors.
OpenExchangeErrorCases == {401, 400, 403, 404, 429}

\* The default case of __handle: parse as a success response.
OpenExchangeDefaultCase(op, resp, replaced, strips) ==
  IF ~GuardValidate(op, resp.body)
  THEN Throw(NewError("OpenExchange", "SERVICE_UNAVAILABLE",
                      Meta("status" :> Num(resp.status)
                           @@ "body" :> BodyValue(resp.body)
                           @@ "responseError" :> GuardianErrorJSON(resp.body)),
                      NoCause, replaced))
  ELSE Return(Validated(op, resp.body, strips))

OpenExchangeHandle(op, resp, replaced, strips) ==
  CASE resp.status = 200 ->
         IF ~GuardValidate(op, resp.body)
         THEN Throw(NewError("OpenExchange", "RESPONSE_ERROR",
                             Meta("status" :> Num(resp.status)
                                  @@ "body" :> BodyValue(resp.body)),
                             NoCause, replaced))
         ELSE Return(Validated(op, resp.body, strips))
    [] resp.status \in OpenExchangeErrorCases ->
         IF ErrorValidate(resp.body)
         THEN Throw(NewError("OpenExchange",
                             OpenExchangeMessageCode(resp.body.f["message"].s),
                             Meta("status" :> Num(resp.status)
                                  @@ "body" :> BodyValue(resp.body)),
                             NoCause, replaced))
         ELSE Throw(NewError("OpenExchange", "RESPONSE_ERROR",
                             Meta("status" :> Num(resp.status)
                                  @@ "body" :> BodyValue(resp.body)
                                  @@ "responseError" :> GuardianErrorJSON(resp.body)),
                             NoCause, replaced))
    [] OTHER -> OpenExchangeDefaultCase(op, resp, replaced, strips)

\* An operation that returns the rates field of historical rates as well.
OpenExchangeResultRatesOnly(op, data) ==
  IF op \in {"getRates", "getHistoricalRates"}
  THEN [kind |-> "rates", f |-> ("rates" :> data.f["rates"]), d |-> NoFields]
  ELSE data

\* What the operation returns of the handler's result: getRates returns the
\* rates field alone, every other operation the validated body.
OpenExchangeResult(op, data) ==
  IF op = "getRates"
  THEN [kind |-> "rates", f |-> ("rates" :> data.f["rates"]), d |-> NoFields]
  ELSE data

\* A public OpenExchange operation after _makeRequest settled: no try/catch
\* surrounds the await or the call of __handle.
OpenExchangeOperation(op, transport, handlerOutcome) ==
  IF transport.kind = "throw"
  THEN Throw(transport.err)
  ELSE IF handlerOutcome.kind = "return"
       THEN Return(OpenExchangeResult(op, handlerOutcome.data))
       ELSE handlerOutcome

(***************************************************************************)
(* Surepass.__checkAPIResponse and the operations' catch blocks            *)
(***************************************************************************)
\* A switch on status_code whose case 422 is missing.
SurepassStatusCodeWithout422(v) ==
  CASE v.t = "number" /\ v.n = 500 -> "SERVICE_UNAVAILABLE"
    [] v.t = "number" /\ v.n = 401 -> "INVALID_TOKEN"
    [] v.t = "number" /\ v.n = 429 -> "RATE_LIMIT_EXCEEDED"
    [] OTHER -> "UNKNOWN_RESPONSE_ERROR"

\* The switch on respObj.status_code of a response reporting failure.
SurepassStatusCode(v) ==
  CASE v.t = "number" /\ v.n = 500 -> "SERVICE_UNAVAILABLE"
    [] v.t = "number" /\ v.n = 422 -> "VERIFICATION_FAILED"
    [] v.t = "number" /\ v.n = 401 -> "INVALID_TOKEN"
    [] v.t = "number" /\ v.n = 429 -> "RATE_LIMIT_EXCEEDED"
    [] OTHER -> "UNKNOWN_RESPONSE_ERROR"

\* respObj.data as the value handed to the operation's validator.
SurepassData(body) ==
  IF Prop(body, "data").t = "object"
  THEN [kind |-> "object", f |-> body.d, d |-> NoFields]
  ELSE NullBody

\* The branch taken when the envelope failed validation: the metadata reads
\* resp.body!.status_code, which throws a TypeError on a null body.
SurepassEnvelopeFailure(resp, replaced) ==
  IF resp.body.kind = "null"
  THEN Throw(NullBodyTypeError)
  ELSE Throw(NewError("Surepass", "RESPONSE_ERROR",
                      Meta("status" :> Prop(resp.body, "status_code")
                           @@ "details" :> ListCauses(resp.body)),
                      NoCause, replaced))

SurepassCheckAPIResponse(op, resp, replaced, strips) ==
  IF ~EnvelopeValidate(resp.body)
  THEN SurepassEnvelopeFailure(resp, replaced)
  ELSE IF Prop(resp.body, "success") = Bool(FALSE)
       THEN Throw(NewError("Surepass",
                           SurepassStatusCode(Prop(resp.body, "status_code")),
                           Meta("statusCode" :> Prop(resp.body, "status_code")
                                @@ "message" :> Prop(resp.body, "message")
                                @@ "details" :> Prop(resp.body, "data")),
                           NoCause, replaced))
       ELSE IF ~GuardValidate(op, SurepassData(resp.body))
            THEN Throw(NewError("Surepass", "PARSE_ERROR",
                                Meta("details" :> ListCauses(SurepassData(resp.body))),
                                NoCause, replaced))
            ELSE Return(Validated(op, SurepassData(resp.body), strips))

\* A catch block that wraps whatever it caught, a SurepassError included.
SurepassCatchAlwaysWraps(op, cause) ==
  NewError("Surepass", "UNHANDLED_ERROR",
           Meta("endpoint" :> Str(SurepassCatchEndpoint(op))),
           CauseOf(cause), TRUE)

\* catch (cause) of every Surepass operation.
SurepassCatch(op, cause) ==
  IF cause.type = "SurepassError"
  THEN [cause EXCEPT !.context = Set(@, "endpoint", Str(SurepassCatchEndpoint(op)))]
  ELSE NewError("Surepass", "UNHANDLED_ERROR",
                Meta("endpoint" :> Str(SurepassCatchEndpoint(op))),
                CauseOf(cause), TRUE)

\* A public Surepass operation after _makeRequest settled.
SurepassOperation(op, transport, handlerOutcome) ==
  LET inner == IF transport.kind = "throw"
               THEN Throw(transport.err)
               ELSE handlerOutcome
  IN  IF inner.kind = "return"
      THEN inner
      ELSE Throw(SurepassCatch(op, inner.err))

(***************************************************************************)
(* The responses the transport delegate may deliver                        *)
(***************************************************************************)
\* A value the guard of a field accepts.
Sample(spec) ==
  CASE spec.t = "string" ->
         (CASE spec.chk = "min5" -> Str("terms")
            [] spec.chk = "len3" -> Str("USD")
            [] spec.chk = "errMessage" -> Str("not_found")
            [] spec.chk = "gender" -> Str("M")
            [] spec.chk = "pan" -> Str("BNZAA2318J")
            [] spec.chk = "aadhaar" -> Str("123456789012")
            [] spec.chk = "date" -> Str("1990-01-01")
            [] OTHER -> Str("text"))
    [] spec.t = "number" ->
         (IF spec.chk = "errStatus" THEN Num(400) ELSE Num(1))
    [] spec.t = "boolean" -> Bool(TRUE)
    [] spec.t = "array" -> Arr(spec.chk)
    [] OTHER -> Obj(IF spec.chk = "any" THEN "object" ELSE spec.chk)

\* A value of another type than the guard's.
Mistyped(spec) == IF spec.t = "string" THEN Num(7) ELSE Str("oops")

\* A value of the guard's type that its check rejects (for checked guards).
Unchecked(spec) ==
  CASE spec.t = "string" -> Str("")
    [] spec.t = "number" -> Num(0 - 1)
    [] spec.t = "boolean" -> Bool(FALSE)
    [] OTHER -> [t |-> spec.t, s |-> "bad", n |-> 0, b |-> FALSE]

Required(schema) == {k \in DOMAIN schema : schema[k].req}

\* The object with every required field of the schema, and the one with
\* every declared field.
Conformant(schema) == [k \in Required(schema) |-> Sample(schema[k])]
Complete(schema) == [k \in DOMAIN schema |-> Sample(schema[k])]

\* Objects that break the schema in one required field: the field dropped,
\* null, of the wrong type, or failing its check.
Broken(schema) ==
  LET c == Conformant(schema)
  IN  {[k \in DOMAIN c \ {x} |-> c[k]] : x \in Required(schema)}
      \cup {[c EXCEPT ![x] = Null] : x \in Required(schema)}
      \cup {[c EXCEPT ![x] = Mistyped(schema[x])] : x \in Required(schema)}
      \cup {[c EXCEPT ![x] = Unchecked(schema[x])] :
              x \in {k \in Required(schema) : schema[k].chk # "any"}}

\* Field sets of the bodies an OpenExchange operation may receive.
CurrenciesFields ==
  {"USD" :> Str("United States Dollar") @@ "EUR" :> Str("Euro"),
   NoFields,
   "error" :> Str("Internal server error"),
   "USD" :> Num(1),
   "USD" :> Str("")}

VendorErrorFields ==
  {"error" :> Bool(e) @@ "status" :> Num(st) @@ "message" :> Str(m)
     @@ "description" :> Str("text") :
   e \in BOOLEAN, st \in {400, 404, 500},
   m \in ErrorMessages \cup {"unknown_error_code"}}
  \cup {"error" :> Bool(TRUE) @@ "status" :> Num(401)
          @@ "message" :> Str("invalid_app_id")}

OpenExchangeBodies(op) ==
  {NullBody, StringBody}
  \cup {ObjectBody(f) : f \in VendorErrorFields}
  \cup (IF op = "listCurrencies"
        THEN {ObjectBody(f) : f \in CurrenciesFields}
        ELSE {ObjectBody(f) :
                f \in {Conformant(OpSchema(op)), Complete(OpSchema(op)),
                       Complete(ErrorSchemaObject) @@ Complete(OpSchema(op))}
                      \cup Broken(OpSchema(op))})

OpenExchangeStatuses == {200, 250, 400, 401, 403, 404, 429, 500, 503}

\* Envelopes of the bodies a Surepass operation may receive.
SurepassStatusCodes == {200, 400, 401, 422, 429, 500, 503}

FailureEnvelopes ==
  {"status_code" :> Num(st) @@ "success" :> Bool(FALSE)
     @@ "message" :> Str("Error message") @@ "data" :> dt :
   st \in SurepassStatusCodes, dt \in {Null, Absent, Obj("object")}}
  \cup {"success" :> Bool(FALSE) @@ "message" :> Str("Error message")}
  \cup {"status_code" :> Null @@ "success" :> Bool(FALSE)}

SuccessEnvelopes ==
  {"status_code" :> st @@ "success" :> su @@ "message" :> Str("Success")
     @@ "data" :> Obj("object") :
   st \in {Num(200), Num(401), Num(500), Absent},
   su \in {Bool(TRUE), Absent, Null}}

DatalessEnvelopes ==
  {"status_code" :> Num(200) @@ "success" :> Bool(TRUE) @@ "data" :> dt :
   dt \in {Null, Absent}}
  \cup {NoFields}

InvalidEnvelopes ==
  {"status_code" :> Str("200") @@ "success" :> Bool(TRUE),
   "status_code" :> Num(200) @@ "success" :> Bool(TRUE) @@ "data" :> Str("text"),
   "status_code" :> Num(200) @@ "success" :> Str("yes") @@ "data" :> Obj("object"),
   "status_code" :> Num(401) @@ "success" :> Bool(FALSE) @@ "message" :> Num(1),
   "success" :> Bool(TRUE) @@ "data" :> Arr("items")}

\* The data object that goes with an envelope.
DataFor(op, f, dd) ==
  EnvelopeBody(f, IF Prop(ObjectBody(f), "data").t = "object" THEN dd ELSE NoFields)

SurepassBodies(op) ==
  {NullBody, StringBody}
  \cup {DataFor(op, f, Conformant(OpSchema(op))) :
          f \in FailureEnvelopes \cup DatalessEnvelopes \cup InvalidEnvelopes}
  \cup {DataFor(op, f, dd) :
          f \in SuccessEnvelopes,
          dd \in {Conformant(OpSchema(op)), Complete(OpSchema(op))}}
  \cup {DataFor(op, "status_code" :> Num(200) @@ "success" :> Bool(TRUE)
                    @@ "data" :> Obj("object"), dd) :
          dd \in Broken(OpSchema(op)) \cup {NoFields}}

SurepassHttpStatuses == {200, 401, 500}

\* What _makeRequest may throw instead of resolving.
TransportErrors(v) ==
  {NetworkError,
   BaseError(v, IF v = "Surepass" THEN "INVALID_TOKEN" ELSE "INVALID_APP_ID",
             NoMeta, NoCause),
   BaseError(v, "SERVICE_UNAVAILABLE", Meta("endpoint" :> Str("elsewhere")),
             NoCause)}

\* Codes and metadata handed directly to the error constructors.
ConstructorCodes(v) ==
  DOMAIN ErrorCodes(v) \cup {"INVALID_CODE", "", "constructor", "toString"}

ConstructorMetas ==
  {NoMeta,
   Meta(NoFields),
   Meta("status" :> Num(400) @@ "endpoint" :> Str("test-endpoint")),
   Meta("originalCode" :> Str("EARLIER_CODE"))}

Vendors == {"OpenExchange", "Surepass"}

(***************************************************************************)
(* Client options and the requests the OpenExchange operations build       *)
(***************************************************************************)
\* A value a caller passes, or does not pass, for an option or a parameter.
NotGiven == [kind |-> "absent", chars |-> <<>>]
Undefined == [kind |-> "undefined", chars |-> <<>>]
NotAString == [kind |-> "number", chars |-> <<>>]
Given(text) == [kind |-> "string", chars |-> text]

\* The same for a list of texts.
NoList == [kind |-> "absent", items |-> <<>>]
UndefinedList == [kind |-> "undefined", items |-> <<>>]
List(items) == [kind |-> "list", items |-> items]

\* An option value as error metadata.
OptionValue(value) ==
  IF value.kind = "string" THEN Text(value.chars)
  ELSE IF value.kind = "number" THEN Num(42)
  ELSE Absent

\* A _processOption that normalises the value and rejects nothing.
ProcessOptionUnchecked(key, value) ==
  CASE key = "appId" ->
         [ok |-> TRUE, value |-> Given(Trim(value.chars)), err |-> NoError]
    [] key = "baseCurrency" ->
         [ok |-> TRUE, value |-> Given(ToUpperCase(value.chars)),
          err |-> NoError]

\* OpenExchange._processOption(key, value): the processed value, or the
\* error it throws.
ProcessOption(key, value) ==
  CASE key = "appId" ->
         IF value.kind # "string" \/ Trim(value.chars) = <<>>
         THEN [ok |-> FALSE, value |-> value,
               err |-> NewError("OpenExchange", "CONFIG_INVALID_APP_ID",
                                Meta("appId" :> OptionValue(value)),
                                NoCause, TRUE)]
         ELSE [ok |-> TRUE, value |-> Given(Trim(value.chars)),
               err |-> NoError]
    [] key = "baseCurrency" ->
         IF value.kind # "string" \/ Len(value.chars) # 3
         THEN [ok |-> FALSE, value |-> value,
               err |-> NewError("OpenExchange", "CONFIG_INVALID_BASE_CURRENCY",
                                Meta("baseCurrency" :> OptionValue(value)),
                                NoCause, TRUE)]
         ELSE [ok |-> TRUE, value |-> Given(ToUpperCase(value.chars)),
               err |-> NoError]

\* The default of the constructor: baseCurrency: 'USD'.
DefaultBaseCurrency == <<"U", "S", "D">>

NoClient ==
  [state |-> "none", vendor |-> "none", appId |-> <<>>,
   baseCurrency |-> <<>>, err |-> NoError]

\* The options of a client constructed without any.
NoOptions == [appId |-> NotGiven, baseCurrency |-> NotGiven]

\* new OpenExchange(options): the options and the defaults go through
\* _processOption one by one; first is the key the base class takes first.
NewOpenExchange(options, first) ==
  LET a == ProcessOption("appId", options.appId)
      b == ProcessOption("baseCurrency",
                         IF options.baseCurrency.kind = "absent"
                         THEN Given(DefaultBaseCurrency)
                         ELSE options.baseCurrency)
      failure == IF first = "appId"
                 THEN (IF ~a.ok THEN a.err ELSE b.err)
                 ELSE (IF ~b.ok THEN b.err ELSE a.err)
  IN  IF a.ok /\ b.ok
      THEN [state |-> "ready", vendor |-> "OpenExchange",
            appId |-> a.value.chars, baseCurrency |-> b.value.chars,
            err |-> NoError]
      ELSE [state |-> "failed", vendor |-> "OpenExchange", appId |-> <<>>,
            baseCurrency |-> <<>>, err |-> failure]

\* new Surepass(options): the constructor rejects nothing.
NewSurepass ==
  [state |-> "ready", vendor |-> "Surepass", appId |-> <<>>,
   baseCurrency |-> <<>>, err |-> NoError]

\* The arguments of an operation: options.base, options.symbols, and the
\* from, to, amount and options.date of convert.
NoArgs ==
  [base |-> NotGiven, symbols |-> NoList, from |-> <<>>, to |-> <<>>,
   amount |-> 0, date |-> NotGiven]

\* The dates and the period a caller passes.
SampleDate == <<"2", "0", "2", "3", "-", "0", "1", "-", "0", "1">>
SamplePeriod == <<"1", "d">>

EmptyQuery == [k \in {} |-> <<>>]
NoPath == [base |-> "", param |-> <<>>, ext |-> ""]
NoRequest == [path |-> NoPath, query |-> EmptyQuery]
Path(text) == [base |-> text, param |-> <<>>, ext |-> ""]

\* options = { ...{ base: this.getOption('baseCurrency') || 'USD' },
\* ...options }: a base key of the caller's options replaces the default,
\* with whatever value it has.
BaseOption(args, cfg) ==
  IF args.base.kind = "absent"
  THEN Given(IF cfg.baseCurrency # <<>>
             THEN cfg.baseCurrency
             ELSE DefaultBaseCurrency)
  ELSE args.base

\* if (base) query['base'] = base.toUpperCase()
BaseQuery(args, cfg) ==
  LET base == BaseOption(args, cfg)
  IN  IF base.kind = "string" /\ base.chars # <<>>
      THEN "base" :> ToUpperCase(base.chars)
      ELSE EmptyQuery

\* if (symbols && symbols.length > 0) query['symbols'] =
\*   symbols.map((s) => s.toUpperCase()).join(',')
SymbolsQuery(args) ==
  IF args.symbols.kind = "list" /\ Len(args.symbols.items) > 0
  THEN "symbols" :> Join([i \in DOMAIN args.symbols.items |->
                            ToUpperCase(args.symbols.items[i])])
  ELSE EmptyQuery

\* The request an OpenExchange operation hands to _makeRequest.
OpenExchangeRequest(op, args, cfg) ==
  CASE op = "getStatus" ->
         [path |-> Path("/status.json"), query |-> EmptyQuery]
    [] op = "listCurrencies" ->
         [path |-> Path("/currencies.json"), query |-> EmptyQuery]
    [] op = "getRates" ->
         [path |-> Path("/latest.json"),
          query |-> SymbolsQuery(args) @@ BaseQuery(args, cfg)]
    [] op = "getHistoricalRates" ->
         [path |-> [base |-> "/historical/", param |-> SampleDate,
                    ext |-> ".json"],
          query |-> SymbolsQuery(args) @@ BaseQuery(args, cfg)]
    [] op = "getTimeSeries" ->
         [path |-> Path("/time-series.json"),
          query |-> SymbolsQuery(args) @@ BaseQuery(args, cfg)
                    @@ ("start" :> SampleDate) @@ ("end" :> SampleDate)]
    [] op = "convert" ->
         [path |-> Path("/convert.json"),
          query |-> (IF args.date.kind = "string" /\ args.date.chars # <<>>
                     THEN "date" :> args.date.chars
                     ELSE EmptyQuery)
                    @@ ("amount" :> NumberToString(args.amount))
                    @@ ("from" :> ToUpperCase(args.from))
                    @@ ("to" :> ToUpperCase(args.to))]
    [] op = "getOHLC" ->
         [path |-> Path("/ohlc.json"),
          query |-> SymbolsQuery(args) @@ BaseQuery(args, cfg)
                    @@ ("start_date" :> SampleDate)
                    @@ ("period" :> SamplePeriod)]

\* The request a Surepass operation hands to _makeRequest.
SurepassRequest(op) == [path |-> Path(SurepassPath(op)), query |-> EmptyQuery]

\* An operation that calls _makeRequest once more with the same request.
OperationRequestsWithRetry(v, op, args, cfg) ==
  IF v = "OpenExchange"
  THEN <<OpenExchangeRequest(op, args, cfg), OpenExchangeRequest(op, args, cfg)>>
  ELSE <<SurepassRequest(op), SurepassRequest(op)>>

\* The calls of _makeRequest an operation makes, in order: each operation
\* awaits one call and makes no other.
OperationRequests(v, op, args, cfg) ==
  IF v = "OpenExchange"
  THEN <<OpenExchangeRequest(op, args, cfg)>>
  ELSE <<SurepassRequest(op)>>

\* The options callers construct an OpenExchange client with.
AppIds ==
  {Given(<<" ", "k", " ">>), Given(<<"k">>), Given(<<>>), Given(<<" ", " ">>),
   NotAString}

BaseCurrencies ==
  {NotGiven, Given(<<"e", "u", "r">>), Given(<<"E", "U", "R">>), Given(<<"E", "U">>),
   Given(<<"E", "U", "R", "O">>), Given(<<>>), NotAString}

\* The arguments callers invoke the operations with.
BaseArguments == {NotGiven, Undefined, Given(<<"g", "b", "p">>), Given(<<"J", "P", "Y">>)}

SymbolsArguments ==
  {NoList, UndefinedList, List(<<>>),
   List(<<<<"u", "s", "d">>, <<"E", "U", "R">>>>), List(<<<<>>>>)}

ConvertCurrencies == {<<"u", "s", "d">>, <<"E", "U", "R">>}

ArgsFor(op) ==
  CASE op \in {"getRates", "getHistoricalRates", "getTimeSeries", "getOHLC"} ->
         {[NoArgs EXCEPT !.base = b, !.symbols = sy] :
            b \in BaseArguments, sy \in SymbolsArguments}
    [] op = "convert" ->
         {[NoArgs EXCEPT !.from = f, !.to = t, !.amount = a, !.date = d] :
            f \in ConvertCurrencies, t \in ConvertCurrencies, a \in {0, 100},
            d \in {NotGiven, Given(SampleDate)}}
    [] OTHER -> {NoArgs}

(***************************************************************************)
(* The workspace tool (.github/workspace.ts)                               *)
(***************************************************************************)

MaxRuns == 3

\* The strings the tool sorts, in the order Array.prototype.sort() gives
\* them (UTF-16 code units: capitals before lower-case letters).
NameOrder ==
  <<"Bad_Name", "Other", "core", "deps", "openexchange", "stripe-connect",
    "surepass">>

OrderIndex(x) == CHOOSE i \in DOMAIN NameOrder : NameOrder[i] = x

RECURSIVE Insert(_, _)
Insert(x, sorted) ==
  IF sorted = <<>> THEN <<x>>
  ELSE IF OrderIndex(x) <= OrderIndex(Head(sorted)) THEN <<x>> \o sorted
  ELSE <<Head(sorted)>> \o Insert(x, Tail(sorted))

\* array.sort()
RECURSIVE Sort(_)
Sort(list) ==
  IF list = <<>> THEN <<>> ELSE Insert(Head(list), Sort(Tail(list)))

\* array.includes(x)
Includes(list, x) == \E i \in DOMAIN list : list[i] = x

\* array.filter((y) => y !== x)
Without(list, x) == SelectSeq(list, LAMBDA y : y # x)

\* array.filter((y) => !deleteList.includes(y))
WithoutAll(list, deleteList) ==
  SelectSeq(list, LAMBDA y : ~Includes(deleteList, y))

\* for (const x of items) if (!list.includes(x)) list.push(x)
RECURSIVE PushMissing(_, _)
PushMissing(list, items) ==
  IF items = <<>> THEN list
  ELSE PushMissing(IF Includes(list, Head(items))
                   THEN list
                   ELSE Append(list, Head(items)),
                   Tail(items))

Elements(list) == {list[i] : i \in DOMAIN list}

\* WORKSPACE_NAME_PATTERN.test(`@${scope}/${name}`) for the names used.
MatchesNamePattern(name) == name # "Bad_Name"

\* The configuration files the tool patches.
LABELER_YML == ".github/labeler.yml"
PR_TITLE_YML == ".github/workflows/pr-title.yaml"
ISSUE_BUG_YML == ".github/ISSUE_TEMPLATE/issue.bug.yml"
ISSUE_DOCUMENTATION_YML == ".github/ISSUE_TEMPLATE/issue.documentation.yml"
CODECOV_YML == "./codecov.yml"
MANUAL_RELEASE_YML == ".github/workflows/manual-release.yml"

ConfigFiles ==
  {LABELER_YML, PR_TITLE_YML, ISSUE_BUG_YML, ISSUE_DOCUMENTATION_YML,
   CODECOV_YML, MANUAL_RELEASE_YML}

\* `connect:${workspace}` and [`${workspace}/**`]
LabelKey(workspace) == "connect:" \o workspace
LabelGlobs(workspace) == <<workspace \o "/**">>

\* The component and the flag the tool writes for a workspace.
Component(name) ==
  [component_id |-> name, name |-> name,
   paths |-> <<name \o "/**.ts", "!" \o name \o "/**.test.ts">>,
   target |-> "75%"]
Flag(name) == [target |-> "75%", flags |-> <<name>>]

\* getWorkspaces(): the names in the workspace array of deno.json, sorted.
GetWorkspaces(f) == Sort(SelectSeq(f.workspace, LAMBDA w : w # ""))

\* A labeler update that writes the labels of the workspaces and nothing
\* else.
UpdateLabelerConfigFromScratch(f, workspaces, deleteList) ==
  IF LABELER_YML \notin f.present THEN f
  ELSE [f EXCEPT !.labeler =
          [k \in {LabelKey(w) : w \in Elements(workspaces)} |->
             LabelGlobs(CHOOSE w \in Elements(workspaces) : LabelKey(w) = k)]]

\* updateLabelerConfig(workspaces, deleteList)
UpdateLabelerConfig(f, workspaces, deleteList) ==
  IF LABELER_YML \notin f.present THEN f
  ELSE LET deleted == {LabelKey(w) : w \in Elements(deleteList)}
           written == {LabelKey(w) : w \in Elements(workspaces)}
           kept == (DOMAIN f.labeler \ deleted) \ written
       IN  [f EXCEPT !.labeler =
              [k \in kept \cup written |->
                 IF k \in written
                 THEN LabelGlobs(CHOOSE w \in Elements(workspaces) :
                                   LabelKey(w) = k)
                 ELSE f.labeler[k]]]

\* updatePRTitleWorkflow(workspaces, deleteList)
UpdatePRTitleWorkflow(f, workspaces, deleteList) ==
  IF PR_TITLE_YML \notin f.present THEN f
  ELSE [f EXCEPT !.scopes =
          Sort(PushMissing(WithoutAll(f.scopes, deleteList), workspaces))]

\* updateCodecovComponents and updateCodecovFlags, called by
\* updateCodecovConfig(workspaces, deleteList)
UpdateCodecovConfig(f, workspaces, deleteList) ==
  IF CODECOV_YML \notin f.present THEN f
  ELSE LET ids == [i \in DOMAIN f.components |->
                     f.components[i].component_id]
           kept == SelectSeq(f.components,
                             LAMBDA c : ~Includes(deleteList, c.component_id))
           keptIds == [i \in DOMAIN kept |-> kept[i].component_id]
           added == SelectSeq(workspaces, LAMBDA w : ~Includes(keptIds, w))
           flagsKept == DOMAIN f.flags \ Elements(deleteList)
       IN  [f EXCEPT
              !.components =
                 kept \o [i \in DOMAIN added |-> Component(added[i])],
              !.flags =
                 [k \in flagsKept \cup Elements(workspaces) |->
                    IF k \in flagsKept THEN f.flags[k] ELSE Flag(k)]]

\* A dropdown update that pushes the missing workspaces after the options
\* already there, 'Other' included.
TemplateOptionsAppended(current, workspaces, deleteList) ==
  PushMissing(SelectSeq(current,
                LAMBDA o : ~Includes(deleteList, o) \/ o = "Other"),
              workspaces)

\* The options of one issue template after updateIssueTemplates.
TemplateOptions(current, workspaces, deleteList) ==
  LET filtered == SelectSeq(current,
                    LAMBDA o : ~Includes(deleteList, o) \/ o = "Other")
      withoutOther == Sort(PushMissing(Without(filtered, "Other"),
                                       workspaces))
  IN  IF Includes(filtered, "Other")
      THEN Append(withoutOther, "Other")
      ELSE withoutOther

\* updateIssueTemplates(workspaces, deleteList)
UpdateIssueTemplates(f, workspaces, deleteList) ==
  [f EXCEPT !.options =
     [t \in DOMAIN f.options |->
        IF t \in f.present
        THEN TemplateOptions(f.options[t], workspaces, deleteList)
        ELSE f.options[t]]]

\* An update of the manual-release options that ignores the delete list.
UpdateManualReleaseWorkflowKeepsDeleted(f, workspaces, deleteList) ==
  IF MANUAL_RELEASE_YML \notin f.present THEN f
  ELSE [f EXCEPT !.release = Sort(PushMissing(f.release, workspaces))]

\* updateManualReleaseWorkflow(workspaces, deleteList)
UpdateManualReleaseWorkflow(f, workspaces, deleteList) ==
  IF MANUAL_RELEASE_YML \notin f.present THEN f
  ELSE [f EXCEPT !.release =
          Sort(PushMissing(WithoutAll(f.release, deleteList), workspaces))]

\* updateWorkflows(workspaces, deleteList): checkWorkspaces throws when the
\* directory of a workspace is missing, before any file is touched.
UpdateWorkflows(f, directories, workspaces, deleteList) ==
  LET named == SelectSeq(workspaces, LAMBDA w : w # "")
      sorted == Sort(named)
  IN  IF \E w \in Elements(named) : w \notin DOMAIN directories
      THEN [ok |-> FALSE, files |-> f]
      ELSE [ok |-> TRUE,
            files |->
              UpdateManualReleaseWorkflow(
                UpdateIssueTemplates(
                  UpdateCodecovConfig(
                    UpdatePRTitleWorkflow(
                      UpdateLabelerConfig(f, sorted, deleteList),
                      sorted, deleteList),
                    sorted, deleteList),
                  sorted, deleteList),
                sorted, deleteList)]

\* The repository the tool is run in: root deno.json lists two workspaces,
\* and the configuration files hold their entries, entries that belong to
\* no workspace, a label a maintainer extended by hand and a dropdown whose
\* options a maintainer ordered by hand.
InitialFiles(present) ==
  [workspace |-> <<"openexchange", "surepass">>,
   present |-> present,
   labeler |-> ("documentation" :> <<"**/*.md">>)
               @@ (LabelKey("openexchange") :>
                     <<"openexchange/**", ".docs/openexchange/**">>)
               @@ (LabelKey("surepass") :> LabelGlobs("surepass")),
   scopes |-> <<"core", "deps", "openexchange", "surepass">>,
   options |-> (ISSUE_BUG_YML :> <<"surepass", "Other", "openexchange">>)
               @@ (ISSUE_DOCUMENTATION_YML :> <<"openexchange", "surepass">>),
   release |-> <<"openexchange", "surepass">>,
   components |-> <<Component("openexchange"), Component("surepass")>>,
   flags |-> ("core" :> [target |-> "80%", flags |-> <<"core">>])
             @@ ("openexchange" :> Flag("openexchange"))
             @@ ("surepass" :> Flag("surepass"))]

\* `@${scope}/${name}` with WORKSPACE_SCOPE
ScopedName(name) == "@tundraconnect/" \o name

NoChangelog == [exists |-> FALSE, title |-> FALSE, unreleased |-> FALSE,
                entries |-> <<>>]

\* The files addWorkspace writes into the directory of a workspace:
\* deno.json from makeWorkspaceDeno, mod.ts, README.md and .docs/README.md.
Scaffold(name) ==
  [denoJson |-> [name |-> ScopedName(name), version |-> <<0, 1, 0>>,
                 description |-> "TODO: Add description"],
   mod |-> "// TODO: Implement your connect here",
   readme |-> "TODO: Brief description of what this connect does",
   docs |-> "TODO: Add example parameters"]

\* The directory of a workspace the maintainers have worked in; openexchange
\* has a CHANGELOG.md, surepass has none yet.
Developed(name) ==
  [denoJson |-> [name |-> ScopedName(name), version |-> <<1, 2, 3>>,
                 description |-> "API client"],
   mod |-> "export * from './" \o name \o ".ts'",
   readme |-> "usage of " \o name,
   docs |-> "documentation of " \o name,
   changelog |-> IF name = "openexchange"
                 THEN [exists |-> TRUE, title |-> TRUE, unreleased |-> TRUE,
                       entries |-> <<>>]
                 ELSE NoChangelog]

\* The directory after addWorkspace wrote its files: the four files are
\* replaced, whatever else is in the directory stays.
Scaffolded(directories, name) ==
  [n \in DOMAIN directories \cup {name} |->
     IF n # name THEN directories[n]
     ELSE Scaffold(name)
          @@ [changelog |-> IF name \in DOMAIN directories
                            THEN directories[name].changelog
                            ELSE NoChangelog]]

\* The files present when the tool is first run: all, or all but one.
InitialPresent ==
  {ConfigFiles} \cup {ConfigFiles \ {file} : file \in ConfigFiles}

\* The names the commands are given.
CommandNames == {"openexchange", "stripe-connect", "Bad_Name"}

\* The workspaces of the repository at one time or another.
WorkspaceNames == {"openexchange", "stripe-connect", "surepass"}

NoCommand == [cmd |-> "none", name |-> ""]

(***************************************************************************)
(* The publish tool: deno task publish:workspace.                          *)
(***************************************************************************)

\* Runs of the publish tool.
MaxPublishRuns == 1

\* A version is the triple of its numbers: <<1, 2, 3>> for '1.2.3'.
NoVersion == <<>>

\* config.version || '0.1.0', split at the dots
VersionParts(version) == IF version = NoVersion THEN <<0, 1, 0>> ELSE version

\* bumpVersion: the new version
BumpedVersion(version, versionType) ==
  LET parts == VersionParts(version)
  IN  CASE versionType = "major" -> <<parts[1] + 1, 0, 0>>
        [] versionType = "minor" -> <<parts[1], parts[2] + 1, 0>>
        [] versionType = "patch" -> <<parts[1], parts[2], parts[3] + 1>>

VersionTypes == {"patch", "minor", "major"}

\* new Date().toISOString().split('T')[0]
Today == "2026-11-02"

\* updateChangelog: the entry of a version
ChangelogEntry(version, versionType, customNotes) ==
  [version |-> version,
   date |-> Today,
   changeType |-> CASE versionType = "major" -> "### BREAKING CHANGES"
                    [] versionType = "minor" -> "### Added"
                    [] versionType = "patch" -> "### Fixed",
   description |->
     CASE versionType = "major" ->
            "- Major version release with potential breaking changes"
       [] versionType = "minor" -> "- New features and enhancements"
       [] versionType = "patch" -> "- Bug fixes and improvements",
   notes |-> IF customNotes = "" THEN "" ELSE "- " \o customNotes]

\* updateChangelog: CHANGELOG.md after the call. A new file has the title,
\* the Unreleased heading and the entry; in an existing one the entry goes
\* under the Unreleased heading, or else under the title, or else nowhere.
UpdatedChangelog(changelog, entry) ==
  IF ~changelog.exists
  THEN [exists |-> TRUE, title |-> TRUE, unreleased |-> TRUE,
        entries |-> <<entry>>]
  ELSE IF changelog.unreleased \/ changelog.title
       THEN [changelog EXCEPT !.entries = <<entry>> \o @]
       ELSE changelog

\* What -w or -a names: all workspaces, no workspace, or one name.
PublishTargets == {"all", "", "openexchange", "surepass", "stripe-connect"}

NoPublishOptions ==
  [target |-> "", versionType |-> "patch", customNotes |-> "",
   skipTests |-> FALSE, dryRun |-> FALSE]

NoPublish ==
  [pc |-> "idle", runs |-> 0, options |-> NoPublishOptions, queue |-> <<>>,
   workspace |-> "", before |-> [version |-> NoVersion,
                                 changelog |-> NoChangelog],
   newVersion |-> NoVersion, testsPass |-> "none", typeCheckPass |-> "none",
   steps |-> <<>>]

(***************************************************************************)
(* State                                                                   *)
(***************************************************************************)
VARIABLES
  pc,         \* "idle", "awaiting" (_makeRequest pending), "settled", "done"
  vendor,     \* the client whose operation runs
  operation,  \* the operation that runs
  transport,  \* how _makeRequest settled: [kind, resp, err]
  handled,    \* what the response handler did with the response
  outcome,    \* what the operation gave its caller
  calls,      \* calls of _makeRequest so far
  built,      \* the last error built directly:
              \* [vendor, code, meta, err, timeStamp, message]
  earlier,    \* the error built before it from the same code and metadata
  client,     \* the client: [state, vendor, appId, baseCurrency, err]
  args,       \* the arguments of the operation whose request is pending
  request,    \* the request _makeRequest was called with and has pending
  sent,       \* calls of _makeRequest the running operation made
  options,    \* the options the client was constructed with, until it is used
  files,      \* root deno.json and the configuration files of the repository
  dirs,       \* the workspace directories that exist, with their files
  exit,       \* how the last run of the workspace tool ended
  last,       \* the command of that run: [cmd, name]
  repeated,   \* that run repeated the command of a completed run before it
  changed,    \* that run left a file different from what it was
  runs,       \* runs of the workspace tool so far
  pub,        \* the run of the publish tool: [pc, runs, options, queue,
              \* workspace, before, newVersion, testsPass, typeCheckPass,
              \* steps]
  registry    \* the packages published to JSR: [name, version]

clientVars ==
  <<pc, vendor, operation, transport, handled, outcome, calls, built, earlier,
    client, args, request, sent, options>>

toolVars == <<files, dirs, exit, last, repeated, changed, runs>>

publishVars == <<pub, registry>>

vars == <<clientVars, toolVars, publishVars>>

NoResponse == [status |-> 0, body |-> NoBody]
NoTransport == [kind |-> "none", resp |-> NoResponse, err |-> NoError]
NoMessage == [prefix |-> "none", timeStamp |-> 0,
              message |-> [template |-> "", values |-> EmptyCtx]]
NoBuilt == [vendor |-> "none", code |-> "", meta |-> NoMeta, err |-> NoError,
            timeStamp |-> 0, message |-> NoMessage]

\* new OpenExchangeError(code, meta) / new SurepassError(code, meta) at the
\* clock reading t.
Built(v, code, meta, t) ==
  LET err == NewError(v, code, meta, NoCause, TRUE)
  IN  [vendor |-> v, code |-> code, meta |-> meta, err |-> err,
       timeStamp |-> t, message |-> RenderedMessage(v, err, t)]

Ops(v) == IF v = "OpenExchange" THEN OpenExchangeOps ELSE SurepassOps

ClientInit ==
  /\ pc = "idle"
  /\ vendor = "none"
  /\ operation = "none"
  /\ transport = NoTransport
  /\ handled = NoOutcome
  /\ outcome = NoOutcome
  /\ calls = 0
  /\ built = NoBuilt
  /\ earlier = NoBuilt
  /\ client = NoClient
  /\ args = NoArgs
  /\ request = NoRequest
  /\ sent = 0
  /\ options = NoOptions

ToolInit(present) ==
  /\ files = InitialFiles(present)
  /\ dirs = [name \in {"openexchange", "surepass"} |-> Developed(name)]
  /\ exit = "none"
  /\ last = NoCommand
  /\ repeated = FALSE
  /\ changed = FALSE
  /\ runs = 0

PublishInit ==
  /\ pub = NoPublish
  /\ registry = {}

Init == ClientInit /\ ToolInit(ConfigFiles) /\ PublishInit

\* A caller constructs a client: new OpenExchange(options) or
\* new Surepass(options).
NewClient ==
  /\ pc = "idle"
  /\ \/ \E a \in AppIds : \E b \in BaseCurrencies :
        \E first \in {"appId", "baseCurrency"} :
          /\ options' = [appId |-> a, baseCurrency |-> b]
          /\ client' = NewOpenExchange(options', first)
     \/ /\ options' = NoOptions
        /\ client' = NewSurepass
  /\ built' = NoBuilt
  /\ earlier' = NoBuilt
  /\ UNCHANGED <<pc, vendor, operation, transport, handled, outcome, calls,
                 args, request, sent>>
  /\ UNCHANGED <<toolVars, publishVars>>

\* A caller invokes a public operation of the client: the request is built
\* and handed to _makeRequest.
Invoke ==
  /\ pc = "idle"
  /\ client.state = "ready"
  /\ \E op \in Ops(client.vendor) : \E a \in ArgsFor(op) :
       LET requests == OperationRequests(client.vendor, op, a, client)
       IN  /\ calls + Len(requests) <= MaxCalls
           /\ operation' = op
           /\ args' = a
           /\ request' = requests[Len(requests)]
           /\ sent' = Len(requests)
           /\ calls' = calls + Len(requests)
  /\ vendor' = client.vendor
  /\ pc' = "awaiting"
  /\ transport' = NoTransport
  /\ handled' = NoOutcome
  /\ outcome' = NoOutcome
  /\ built' = NoBuilt
  /\ earlier' = NoBuilt
  /\ options' = NoOptions
  /\ UNCHANGED client
  /\ UNCHANGED <<toolVars, publishVars>>

\* _makeRequest resolves with a response.
TransportResolves ==
  /\ pc = "awaiting"
  /\ \E st \in (IF vendor = "OpenExchange"
                THEN OpenExchangeStatuses ELSE SurepassHttpStatuses) :
     \E body \in (IF vendor = "OpenExchange"
                  THEN OpenExchangeBodies(operation)
                  ELSE SurepassBodies(operation)) :
       transport' = [kind |-> "response",
                     resp |-> [status |-> st, body |-> body],
                     err |-> NoError]
  /\ pc' = "settled"
  /\ args' = NoArgs
  /\ request' = NoRequest
  /\ UNCHANGED <<vendor, operation, handled, outcome, calls, built, earlier,
                 client, sent, options>>
  /\ UNCHANGED <<toolVars, publishVars>>

\* _makeRequest throws.
TransportThrows ==
  /\ pc = "awaiting"
  /\ \E e \in TransportErrors(vendor) :
       transport' = [kind |-> "throw", resp |-> NoResponse, err |-> e]
  /\ pc' = "settled"
  /\ args' = NoArgs
  /\ request' = NoRequest
  /\ UNCHANGED <<vendor, operation, handled, outcome, calls, built, earlier,
                 client, sent, options>>
  /\ UNCHANGED <<toolVars, publishVars>>

\* The rest of an OpenExchange operation.
OpenExchangeCompletes ==
  /\ pc = "settled"
  /\ vendor = "OpenExchange"
  /\ \E replaced \in BOOLEAN : \E strips \in BOOLEAN :
       LET h == IF transport.kind = "response"
                THEN OpenExchangeHandle(operation, transport.resp, replaced, strips)
                ELSE NoOutcome
       IN  /\ handled' = h
           /\ outcome' = OpenExchangeOperation(operation, transport, h)
  /\ pc' = "done"
  /\ UNCHANGED <<vendor, operation, transport, calls, built, earlier, client,
                 args, request, sent, options>>
  /\ UNCHANGED <<toolVars, publishVars>>

\* The rest of a Surepass operation.
SurepassCompletes ==
  /\ pc = "settled"
  /\ vendor = "Surepass"
  /\ \E replaced \in BOOLEAN : \E strips \in BOOLEAN :
       LET h == IF transport.kind = "response"
                THEN SurepassCheckAPIResponse(operation, transport.resp, replaced, strips)
                ELSE NoOutcome
       IN  /\ handled' = h
           /\ outcome' = SurepassOperation(operation, transport, h)
  /\ pc' = "done"
  /\ UNCHANGED <<vendor, operation, transport, calls, built, earlier, client,
                 args, request, sent, options>>
  /\ UNCHANGED <<toolVars, publishVars>>

\* The caller's await ends: it has the result or the thrown error, and the
\* operation's locals are gone.
CallerReceives ==
  /\ pc = "done"
  /\ pc' = "idle"
  /\ transport' = NoTransport
  /\ handled' = NoOutcome
  /\ outcome' = NoOutcome
  /\ sent' = 0
  /\ UNCHANGED <<vendor, operation, calls, built, earlier, client, args,
                 request, options>>
  /\ UNCHANGED <<toolVars, publishVars>>

\* Before it constructs a client, some code builds an error directly:
\* new OpenExchangeError(code, meta) or new SurepassError(code, meta).
Construct ==
  /\ pc = "idle"
  /\ client = NoClient
  /\ \E v \in Vendors : \E code \in ConstructorCodes(v) :
     \E meta \in ConstructorMetas : \E t \in built.timeStamp..MaxTime :
       built' = Built(v, code, meta, t)
  /\ earlier' = NoBuilt
  /\ UNCHANGED <<pc, vendor, operation, transport, handled, outcome, calls,
                 client, args, request, sent, options>>
  /\ UNCHANGED <<toolVars, publishVars>>

\* The same code and metadata are used for another error, at the same
\* reading of the clock or at a later one.
ConstructAgain ==
  /\ pc = "idle"
  /\ built # NoBuilt
  /\ \E t \in built.timeStamp..MaxTime :
       built' = Built(built.vendor, built.code, built.meta, t)
  /\ earlier' = built
  /\ UNCHANGED <<pc, vendor, operation, transport, handled, outcome, calls,
                 client, args, request, sent, options>>
  /\ UNCHANGED <<toolVars, publishVars>>

Next ==
  \/ NewClient
  \/ Invoke
  \/ TransportResolves
  \/ TransportThrows
  \/ OpenExchangeCompletes
  \/ SurepassCompletes
  \/ CallerReceives
  \/ Construct
  \/ ConstructAgain

Spec == Init /\ [][Next]_vars

\* One run of the tool ends: the command, how it ended and what it wrote.
Ran(cmd, name, ok, f) ==
  /\ runs < MaxRuns
  /\ runs' = runs + 1
  /\ last' = [cmd |-> cmd, name |-> name]
  /\ repeated' = (last = [cmd |-> cmd, name |-> name] /\ exit = "ok")
  /\ exit' = IF ok THEN "ok" ELSE "error"
  /\ files' = f
  /\ changed' = (f # files)

\* An addWorkspace that creates the directory and its files before it
\* validates the name.
AddWorkspaceCreatesFirst(name) ==
  LET workspaces == GetWorkspaces(files)
      pushed == Sort(Append(workspaces, name))
      written == [files EXCEPT !.workspace = pushed]
      created == Scaffolded(dirs, name)
      updated == UpdateWorkflows(written, created, pushed, <<>>)
  IN  /\ dirs' = created
      /\ IF ~MatchesNamePattern(name) \/ Includes(workspaces, name)
         THEN Ran("add", name, FALSE, files)
         ELSE Ran("add", name, updated.ok, updated.files)
      /\ UNCHANGED <<clientVars, publishVars>>

\* deno task workspace:add <name>: addWorkspace(name)
AddWorkspace(name) ==
  LET workspaces == GetWorkspaces(files)
      pushed == Sort(Append(workspaces, name))
      written == [files EXCEPT !.workspace = pushed]
      created == Scaffolded(dirs, name)
      updated == UpdateWorkflows(written, created, pushed, <<>>)
  IN  /\ IF ~MatchesNamePattern(name) \/ Includes(workspaces, name)
         THEN Ran("add", name, FALSE, files) /\ UNCHANGED dirs
         ELSE /\ dirs' = created
              /\ Ran("add", name, updated.ok, updated.files)
      /\ UNCHANGED <<clientVars, publishVars>>

\* deno task workspace:remove <name>: removeWorkspace(name)
RemoveWorkspace(name) ==
  LET workspaces == GetWorkspaces(files)
      updatedWorkspaces == Sort(Without(workspaces, name))
      written == [files EXCEPT !.workspace = updatedWorkspaces]
      updated == UpdateWorkflows(written, dirs, updatedWorkspaces, <<name>>)
  IN  /\ IF ~MatchesNamePattern(name) \/ ~Includes(workspaces, name)
         THEN Ran("remove", name, FALSE, files)
         ELSE Ran("remove", name, updated.ok, updated.files)
      /\ UNCHANGED <<dirs, clientVars, publishVars>>

\* deno task workspace:sync: updateWorkflows(await getWorkspaces())
SyncWorkspaces ==
  LET updated == UpdateWorkflows(files, dirs, GetWorkspaces(files), <<>>)
  IN  /\ Ran("sync", "", updated.ok, updated.files)
      /\ UNCHANGED <<dirs, clientVars, publishVars>>

\* A maintainer edits root deno.json by hand and takes a workspace out.
EditDenoJson(name) ==
  /\ Includes(files.workspace, name)
  /\ files' = [files EXCEPT !.workspace = Without(files.workspace, name)]
  /\ last' = NoCommand
  /\ UNCHANGED <<dirs, exit, repeated, changed, runs, clientVars, publishVars>>

\* A maintainer deletes the directory of a workspace.
DeleteDirectory(name) ==
  /\ name \in DOMAIN dirs
  /\ dirs' = [n \in DOMAIN dirs \ {name} |-> dirs[n]]
  /\ last' = NoCommand
  /\ UNCHANGED <<files, exit, repeated, changed, runs, clientVars, publishVars>>

WorkspaceInit ==
  /\ ClientInit
  /\ \E present \in InitialPresent : ToolInit(present)
  /\ PublishInit

WorkspaceNext ==
  \/ \E name \in CommandNames : AddWorkspace(name)
  \/ \E name \in CommandNames : RemoveWorkspace(name)
  \/ SyncWorkspaces
  \/ \E name \in WorkspaceNames : EditDenoJson(name)
  \/ \E name \in WorkspaceNames : DeleteDirectory(name)

WorkspaceSpec == WorkspaceInit /\ [][WorkspaceNext]_vars

\* The tool used as intended: every run is an add or a remove that
\* completes; directories are deleted by hand.
AddSucceeds(name) == AddWorkspace(name) /\ exit' = "ok"

RemoveSucceeds(name) == RemoveWorkspace(name) /\ exit' = "ok"

MirrorNext ==
  \/ \E name \in CommandNames : AddSucceeds(name)
  \/ \E name \in CommandNames : RemoveSucceeds(name)
  \/ \E name \in WorkspaceNames : DeleteDirectory(name)

MirrorSpec == WorkspaceInit /\ [][MirrorNext]_vars

\* The publish tool starts: main parses the arguments and reads the
\* workspaces of root deno.json.
StartPublish ==
  /\ pub.pc \in {"idle", "done", "failed"}
  /\ pub.runs < MaxPublishRuns
  /\ \E target \in PublishTargets : \E versionType \in VersionTypes :
     \E customNotes \in {"", "notes"} :
     \E skipTests \in BOOLEAN : \E dryRun \in BOOLEAN :
       LET workspaces == Sort(GetWorkspaces(files))
           queue == IF target = "all" THEN workspaces
                    ELSE IF Includes(workspaces, target) THEN <<target>>
                    ELSE <<>>
       IN  pub' = [NoPublish EXCEPT
                     !.runs = pub.runs + 1,
                     !.options = [target |-> target,
                                  versionType |-> versionType,
                                  customNotes |-> customNotes,
                                  skipTests |-> skipTests,
                                  dryRun |-> dryRun],
                     !.queue = queue,
                     !.pc = IF workspaces = <<>> THEN "done"
                            ELSE IF queue = <<>> THEN "failed"
                            ELSE "start"]
  /\ UNCHANGED <<registry, clientVars, toolVars>>

\* publishWorkspace checks that the workspace directory and its deno.json
\* exist.
ValidateWorkspace ==
  /\ pub.pc = "start"
  /\ LET workspace == Head(pub.queue)
     IN  pub' = IF workspace \in DOMAIN dirs
                THEN [pub EXCEPT
                        !.pc = "validated",
                        !.workspace = workspace,
                        !.before =
                           [version |-> dirs[workspace].denoJson.version,
                            changelog |-> dirs[workspace].changelog],
                        !.newVersion = NoVersion,
                        !.testsPass = "none",
                        !.typeCheckPass = "none",
                        !.steps = <<"validate">>]
                ELSE [pub EXCEPT !.pc = "failed",
                                 !.workspace = workspace,
                                 !.steps = <<"validate">>]
  /\ UNCHANGED <<registry, clientVars, toolVars>>

\* bumpVersion(workspace, versionType) writes the new version to the
\* deno.json of the workspace.
BumpVersion ==
  /\ pub.pc = "validated"
  /\ LET newVersion ==
           BumpedVersion(dirs[pub.workspace].denoJson.version,
                         pub.options.versionType)
     IN  /\ dirs' = [dirs EXCEPT ![pub.workspace].denoJson.version =
                                   newVersion]
         /\ pub' = [pub EXCEPT !.pc = "bumped",
                               !.newVersion = newVersion,
                               !.steps = Append(@, "bump")]
  /\ UNCHANGED <<registry, clientVars, files, exit, last, repeated, changed,
                 runs>>

\* updateChangelog(workspace, newVersion, versionType, customNotes)
UpdateChangelog ==
  /\ pub.pc = "bumped"
  /\ dirs' = [dirs EXCEPT ![pub.workspace].changelog =
                UpdatedChangelog(@, ChangelogEntry(pub.newVersion,
                                                   pub.options.versionType,
                                                   pub.options.customNotes))]
  /\ pub' = [pub EXCEPT !.pc = "logged", !.steps = Append(@, "changelog")]
  /\ UNCHANGED <<registry, clientVars, files, exit, last, repeated, changed,
                 runs>>

\* runTests(workspace): deno test passes or fails; a failure is a warning.
RunTests ==
  /\ pub.pc = "logged"
  /\ ~pub.options.skipTests
  /\ \E testsPass \in {"pass", "fail"} :
       pub' = [pub EXCEPT !.pc = "tested",
                          !.testsPass = testsPass,
                          !.steps = Append(@, "test")]
  /\ UNCHANGED <<registry, clientVars, toolVars>>

\* typeCheck(workspace): deno check passes or fails; a failure is a warning.
TypeCheck ==
  /\ pub.pc = "tested"
  /\ \E typeCheckPass \in {"pass", "fail"} :
       pub' = [pub EXCEPT !.pc = "checked",
                          !.typeCheckPass = typeCheckPass,
                          !.steps = Append(@, "check")]
  /\ UNCHANGED <<registry, clientVars, toolVars>>

\* publishToJSR(workspace, dryRun): deno publish succeeds or fails. After a
\* success main goes on with the next workspace of -a, if there is one.
PublishToJSR ==
  /\ \/ pub.pc = "checked"
     \/ pub.pc = "logged" /\ pub.options.skipTests
  /\ \E publishSuccess \in BOOLEAN :
       /\ pub' = [pub EXCEPT
                    !.pc = IF ~publishSuccess THEN "failed"
                           ELSE IF Len(pub.queue) > 1 THEN "start"
                           ELSE "done",
                    !.queue = IF publishSuccess THEN Tail(@) ELSE @,
                    !.steps = Append(@, "publish")]
       /\ registry' = IF publishSuccess /\ ~pub.options.dryRun
                      THEN registry \cup
                             {[name |-> ScopedName(pub.workspace),
                               version |-> pub.newVersion]}
                      ELSE registry
  /\ UNCHANGED <<clientVars, toolVars>>

\* Between runs of the publish tool a workspace directory is deleted.
DirectoryLost(name) ==
  /\ pub.pc \in {"idle", "done", "failed"}
  /\ DeleteDirectory(name)

PublishNext ==
  \/ StartPublish
  \/ ValidateWorkspace
  \/ BumpVersion
  \/ UpdateChangelog
  \/ RunTests
  \/ TypeCheck
  \/ PublishToJSR
  \/ \E name \in WorkspaceNames : DirectoryLost(name)

PublishSpec == Init /\ [][PublishNext]_vars

(***************************************************************************)
(* Properties                                                              *)
(***************************************************************************)
\* The operation has finished on a response of the transport.
Answered(v) == pc = "done" /\ vendor = v /\ transport.kind = "response"

\* The error is the Domain Error of the vendor.
IsDomainError(e, v) == e.type = ErrorClass(v)

\* The error the operation's boundary received: thrown by the transport or
\* by the response handler.
InnerFailure ==
  IF transport.kind = "throw" THEN Throw(transport.err) ELSE handled

\* C1 for the handler of vendor v: the response ended in exactly one of two
\* outcomes, a returned Validated Result or a thrown Domain Error of v.
HandlerTotal(v) ==
  Answered(v) =>
    \/ handled.kind = "return" /\ handled.err = NoError
    \/ handled.kind = "throw" /\ handled.data = NoBody
                              /\ IsDomainError(handled.err, v)

\* C1: every response handed to a response handler, whatever its status and
\* body (null and non-object bodies included), ends in exactly one of two
\* outcomes: the handler returns a Validated Result, or it throws the
\* client's own Domain Error.  Stated here for Surepass.__checkAPIResponse.
C1_HandlerReturnsResultOrDomainError == HandlerTotal("Surepass")

\* C2: every failure of a public operation reaches the caller as the
\* client's own Domain Error; no raw exception thrown by the transport
\* delegate escapes unwrapped.  Stated here for the failures of _makeRequest.
C2_TransportFailureIsDomainError ==
  (pc = "done" /\ transport.kind = "throw") =>
    outcome.kind = "throw" /\ IsDomainError(outcome.err, vendor)

C4_Table(s) ==
  IF s.t # "number" THEN "UNKNOWN_RESPONSE_ERROR"
  ELSE CASE s.n = 500 -> "SERVICE_UNAVAILABLE"
         [] s.n = 422 -> "VERIFICATION_FAILED"
         [] s.n = 401 -> "INVALID_TOKEN"
         [] s.n = 429 -> "RATE_LIMIT_EXCEEDED"
         [] OTHER -> "UNKNOWN_RESPONSE_ERROR"

C5_Table(m) ==
  CASE m = "not_found" -> "NOT_FOUND"
    [] m = "missing_app_id" -> "MISSING_APP_ID"
    [] m = "invalid_app_id" -> "INVALID_APP_ID"
    [] m = "not_allowed" -> "NOT_ALLOWED"
    [] m = "access_restricted" -> "NOT_ALLOWED"
    [] OTHER -> "RESPONSE_ERROR"

\* C5: an OpenExchange response with status 400, 401, 403, 404 or 429 is
\* always rejected, with the code chosen by body.message when the body
\* conforms to the error schema and with RESPONSE_ERROR when it does not.
C5_ErrorStatusCodeByMessage ==
  (Answered("OpenExchange")
   /\ transport.resp.status \in {400, 401, 403, 404, 429}) =>
    /\ outcome.kind = "throw"
    /\ outcome.err.type = "OpenExchangeError"
    /\ outcome.err.code =
         IF ErrorValidate(transport.resp.body)
         THEN C5_Table(transport.resp.body.f["message"].s)
         ELSE "RESPONSE_ERROR"

\* The documented mapping of C6 from HTTP status to error code.
C6_Table(st) ==
  CASE st = 400 -> "MISSING_APP_ID"
    [] st = 401 -> "INVALID_APP_ID"
    [] st = 403 -> "NOT_ALLOWED"
    [] st = 404 -> "NOT_FOUND"
    [] st = 429 -> "NOT_ALLOWED"
    [] OTHER -> "SERVICE_UNAVAILABLE"

\* C6: the error code of a rejected OpenExchange operation is the one the
\* documentation gives for the HTTP status: 400 MISSING_APP_ID, 401
\* INVALID_APP_ID, 403 NOT_ALLOWED, 404 NOT_FOUND, 429 NOT_ALLOWED, 500 and
\* above SERVICE_UNAVAILABLE.
C6_CodeDeterminedByHttpStatus ==
  (/\ Answered("OpenExchange")
   /\ outcome.kind = "throw"
   /\ outcome.err.type = "OpenExchangeError"
   /\ \/ transport.resp.status \in {400, 401, 403, 404, 429}
      \/ transport.resp.status >= 500) =>
    outcome.err.code = C6_Table(transport.resp.status)

\* The object lacks a field the schema requires, or has it with a value of
\* another type than the schema's.
MissingRequired(schema, f) ==
  \E k \in DOMAIN schema :
    /\ schema[k].req
    /\ (IF k \in DOMAIN f THEN f[k] ELSE Absent).t # schema[k].t

\* C7: a success-status response whose body lacks a field the operation's
\* schema requires, or has it with the wrong type, is rejected with a Domain
\* Error of the parse/response kind (OpenExchange: RESPONSE_ERROR; Surepass:
\* PARSE_ERROR or RESPONSE_ERROR) and never resolves.  The success status is
\* 200 for OpenExchange; a Surepass body has it when its status_code is 200
\* and it does not report failure.
C7_MissingFieldRejected ==
  (pc = "done" /\ transport.kind = "response"
   /\ transport.resp.body.kind = "object") =>
    /\ (/\ vendor = "OpenExchange"
        /\ transport.resp.status = 200
        /\ operation # "listCurrencies"
        /\ MissingRequired(OpSchema(operation), transport.resp.body.f)) =>
         /\ outcome.kind = "throw"
         /\ outcome.err.type = "OpenExchangeError"
         /\ outcome.err.code = "RESPONSE_ERROR"
    /\ (/\ vendor = "Surepass"
        /\ Prop(transport.resp.body, "status_code") = Num(200)
        /\ Prop(transport.resp.body, "success") # Bool(FALSE)
        /\ MissingRequired(OpSchema(operation),
                           SurepassData(transport.resp.body).f)) =>
         /\ outcome.kind = "throw"
         /\ outcome.err.type = "SurepassError"
         /\ outcome.err.code \in {"PARSE_ERROR", "RESPONSE_ERROR"}

\* C7 witness: getHistoricalRates received status 200 with a body that has a
\* timestamp but no rates, and was rejected with RESPONSE_ERROR.
C7_Witness ==
  /\ Answered("OpenExchange")
  /\ operation = "getHistoricalRates"
  /\ transport.resp.status = 200
  /\ transport.resp.body.kind = "object"
  /\ "rates" \notin DOMAIN transport.resp.body.f
  /\ "timestamp" \in DOMAIN transport.resp.body.f
  /\ outcome.kind = "throw"
  /\ outcome.err.code = "RESPONSE_ERROR"

\* C8: when the body of a Surepass response does not conform to the
\* response-envelope schema, or is null, the operation is rejected with a
\* SurepassError whose code is RESPONSE_ERROR.
C8_InvalidEnvelopeIsResponseError ==
  (Answered("Surepass")
   /\ \/ transport.resp.body.kind = "null"
      \/ ~EnvelopeValidate(transport.resp.body)) =>
    /\ outcome.kind = "throw"
    /\ outcome.err.type = "SurepassError"
    /\ outcome.err.code = "RESPONSE_ERROR"

C10_UnknownCodeFallsBack ==
  (built.vendor # "none" /\ built.code \notin DOMAIN ErrorCodes(built.vendor))
    => /\ built.err.type = ErrorClass(built.vendor)
       /\ built.err.code = "UNKNOWN_ERROR"
       /\ Get(built.err.context, "originalCode") = Str(built.code)

\* C11: two Domain Errors built from the same code and the same metadata
\* have equal message text and equal code; nothing hidden, time-dependent
\* or random enters the construction.
C11_SameInputsSameMessage ==
  (earlier # NoBuilt /\ earlier.vendor = built.vendor
   /\ earlier.code = built.code /\ earlier.meta = built.meta) =>
    /\ built.err.code = earlier.err.code
    /\ built.message = earlier.message

\* The fields an operation validates: the body's (OpenExchange) or those of
\* the body's data object (Surepass).
ResultSource ==
  IF vendor = "OpenExchange"
  THEN transport.resp.body.f
  ELSE SurepassData(transport.resp.body).f

\* The operation finished on a success-status response whose body conforms
\* to the operation's schema.
SuccessConformant ==
  /\ pc = "done"
  /\ transport.kind = "response"
  /\ IF vendor = "OpenExchange"
     THEN /\ transport.resp.status = 200
          /\ GuardValidate(operation, transport.resp.body)
     ELSE /\ Prop(transport.resp.body, "status_code") = Num(200)
          /\ Prop(transport.resp.body, "success") # Bool(FALSE)
          /\ EnvelopeValidate(transport.resp.body)
          /\ GuardValidate(operation, SurepassData(transport.resp.body))

ValidAppId(value) ==
  /\ value.kind = "string"
  /\ \E i \in DOMAIN value.chars : value.chars[i] # " "

\* The baseCurrency option is left out or is a string of three characters.
ValidBaseCurrency(value) ==
  \/ value.kind = "absent"
  \/ value.kind = "string" /\ Len(value.chars) = 3

\* new OpenExchange(options) has just run.
Constructed == client.vendor = "OpenExchange" /\ options # NoOptions

\* C14: new OpenExchange(options) with an appId that is not a string or is
\* blank throws OpenExchangeError CONFIG_INVALID_APP_ID, with a baseCurrency
\* that is not a string of three characters it throws
\* CONFIG_INVALID_BASE_CURRENCY (one of the two when both are invalid); the
\* error is thrown by the constructor, so no operation runs on that client,
\* and a client that was constructed holds a non-blank trimmed appId and a
\* baseCurrency of three characters.
C14_InvalidOptionsThrow ==
  /\ Constructed =>
       /\ client.state = "ready" <=>
            ValidAppId(options.appId) /\ ValidBaseCurrency(options.baseCurrency)
       /\ client.state = "failed" =>
            /\ client.err.type = "OpenExchangeError"
            /\ client.err.code \in
                 {"CONFIG_INVALID_APP_ID", "CONFIG_INVALID_BASE_CURRENCY"}
            /\ client.err.code = "CONFIG_INVALID_APP_ID" =>
                 ~ValidAppId(options.appId)
            /\ client.err.code = "CONFIG_INVALID_BASE_CURRENCY" =>
                 ~ValidBaseCurrency(options.baseCurrency)
  /\ client.state = "failed" => pc = "idle" /\ sent = 0
  /\ (client.vendor = "OpenExchange" /\ client.state = "ready") =>
       /\ client.appId # <<>>
       /\ Head(client.appId) # " "
       /\ client.appId[Len(client.appId)] # " "
       /\ Len(client.baseCurrency) = 3

\* C14 witness: a construction with a blank appId and a valid baseCurrency
\* threw CONFIG_INVALID_APP_ID before any call of _makeRequest.
C14_Witness ==
  /\ Constructed
  /\ options.appId = Given(<<" ", " ">>)
  /\ ValidBaseCurrency(options.baseCurrency)
  /\ client.state = "failed"
  /\ client.err.code = "CONFIG_INVALID_APP_ID"
  /\ calls = 0

\* out is text with each lower-case letter replaced by its capital and every
\* other character kept.
IsUpperCaseOf(text, out) ==
  /\ Len(out) = Len(text)
  /\ \A i \in DOMAIN text :
       /\ \A k \in DOMAIN LowerCaseLetters : out[i] # LowerCaseLetters[k]
       /\ \/ out[i] = text[i]
          \/ \E k \in DOMAIN LowerCaseLetters :
               text[i] = LowerCaseLetters[k] /\ out[i] = UpperCaseLetters[k]

\* An OpenExchange operation has built its request and awaits _makeRequest.
Requested(ops) ==
  pc = "awaiting" /\ vendor = "OpenExchange" /\ operation \in ops

\* The operations that take options.base and options.symbols.
RatesOps == {"getRates", "getHistoricalRates", "getTimeSeries", "getOHLC"}

\* C15: the currency codes in the request query are the caller's codes in
\* capitals, whatever case the caller used: from and to of convert, the base
\* the caller gave and the comma-joined symbols the caller gave to getRates,
\* getHistoricalRates, getTimeSeries and getOHLC; and no base, symbols, from
\* or to in a query has a lower-case letter.
C15_QueryCodesUpperCased ==
  /\ Requested({"convert"}) =>
       /\ IsUpperCaseOf(args.from, request.query["from"])
       /\ IsUpperCaseOf(args.to, request.query["to"])
  /\ Requested(RatesOps) =>
       /\ (args.base.kind = "string" /\ args.base.chars # <<>>) =>
            /\ "base" \in DOMAIN request.query
            /\ IsUpperCaseOf(args.base.chars, request.query["base"])
       /\ (args.symbols.kind = "list" /\ args.symbols.items # <<>>) =>
            /\ "symbols" \in DOMAIN request.query
            /\ IsUpperCaseOf(Join(args.symbols.items),
                             request.query["symbols"])
  /\ Requested(OpenExchangeOps) =>
       \A k \in DOMAIN request.query \cap {"base", "symbols", "from", "to"} :
         IsUpperCaseOf(request.query[k], request.query[k])

\* C15 witness: convert was called with from 'usd' and to 'EUR' and awaits
\* a request whose query has from 'USD' and to 'EUR'.
C15_Witness ==
  /\ Requested({"convert"})
  /\ args.from = <<"u", "s", "d">>
  /\ args.to = <<"E", "U", "R">>
  /\ request.query["from"] = <<"U", "S", "D">>
  /\ request.query["to"] = <<"E", "U", "R">>

\* C16: in getRates, getHistoricalRates, getTimeSeries and getOHLC the query
\* has the key symbols exactly when the caller gave a non-empty list, its
\* value is then the elements joined by commas in the caller's order, and
\* no key of the query has the empty string as its value.
C16_SymbolsJoinedOrOmitted ==
  Requested(RatesOps) =>
    /\ "symbols" \in DOMAIN request.query <=>
         (args.symbols.kind = "list" /\ args.symbols.items # <<>>)
    /\ "symbols" \in DOMAIN request.query =>
         IsUpperCaseOf(Join(args.symbols.items), request.query["symbols"])
    /\ \A k \in DOMAIN request.query : request.query[k] # <<>>

\* C17: when the caller gives no base currency the base of the query is the
\* baseCurrency the client was configured with ('USD' when none was
\* configured), and a base the caller gives is the one in the query.
C17_BaseDefaultsToConfigured ==
  Requested(RatesOps) =>
    /\ "base" \in DOMAIN request.query
    /\ request.query["base"] =
         IF args.base.kind = "string"
         THEN ToUpperCase(args.base.chars)
         ELSE client.baseCurrency

\* C18: a run of the tool that repeats the command of the completed run
\* before it, for the same workspace, completes without error and leaves
\* root deno.json and every configuration file as that run left them.
C18_RepeatedRunChangesNothing ==
  repeated => exit = "ok" /\ ~changed

\* The workspaces root deno.json lists.
Listed == Elements(files.workspace)

\* The workspaces that have an entry in each configuration file.
Labelled == {w \in WorkspaceNames : LabelKey(w) \in DOMAIN files.labeler}
Scoped == Elements(files.scopes) \cap WorkspaceNames
Offered(template) == Elements(files.options[template]) \cap WorkspaceNames
Releasable == Elements(files.release) \cap WorkspaceNames
Covered ==
  {files.components[i].component_id : i \in DOMAIN files.components}
    \cap WorkspaceNames
Flagged == DOMAIN files.flags \cap WorkspaceNames

\* C19: when workspace:sync has completed, the labels connect:<ws>, the
\* PR-title scopes, the options of both issue templates, the manual-release
\* options and the codecov components and flags of each file that exists
\* are those of the workspaces root deno.json lists, no more and no fewer.
C19_SyncMatchesDenoJson ==
  (last.cmd = "sync" /\ exit = "ok") =>
    /\ LABELER_YML \in files.present => Labelled = Listed
    /\ PR_TITLE_YML \in files.present => Scoped = Listed
    /\ \A t \in DOMAIN files.options :
         t \in files.present => Offered(t) = Listed
    /\ MANUAL_RELEASE_YML \in files.present => Releasable = Listed
    /\ CODECOV_YML \in files.present => Covered = Listed /\ Flagged = Listed

\* A run keeps the labels of labeler.yml other than connect:<ws> for the
\* given workspaces, with their globs.
LabelsKept(workspaces) ==
  \A k \in DOMAIN files.labeler \ {LabelKey(w) : w \in workspaces} :
    k \in DOMAIN files'.labeler /\ files'.labeler[k] = files.labeler[k]

\* A run keeps the PR-title scopes, the issue-template options and the
\* codecov components and flags other than those of the given workspaces.
ListsKept(workspaces) ==
  /\ Elements(files.scopes) \ workspaces \subseteq Elements(files'.scopes)
  /\ \A t \in DOMAIN files.options :
       Elements(files.options[t]) \ workspaces
         \subseteq Elements(files'.options[t])
  /\ \A c \in Elements(files.components) :
       c.component_id \notin workspaces => c \in Elements(files'.components)
  /\ \A k \in DOMAIN files.flags \ workspaces :
       k \in DOMAIN files'.flags /\ files'.flags[k] = files.flags[k]

\* The workspace a run adds or removes.
Target == IF last'.cmd \in {"add", "remove"} THEN {last'.name} ELSE {}

\* C20 as stated: a run of add, remove or sync keeps every entry of
\* labeler.yml, of the PR-title scopes, of the issue-template options and of
\* codecov.yml that is not an entry of the workspace being added or removed.
C20_OtherEntriesKept ==
  [][runs' = runs + 1 => LabelsKept(Target) /\ ListsKept(Target)]_vars

\* C20 amended: a run keeps every PR-title scope, issue-template option and
\* codecov component and flag that is not of the workspace being added or
\* removed, and every label of labeler.yml that is neither of that workspace
\* nor connect:<ws> of a workspace root deno.json lists after the run; the
\* labels connect:<ws> of the listed workspaces are written anew as
\* ['<ws>/**'] by a run that completes.
C20_EntriesOfNoWorkspaceKept ==
  [][runs' = runs + 1 =>
       /\ LabelsKept(Target \cup Elements(files'.workspace))
       /\ ListsKept(Target)
       /\ (exit' = "ok" /\ LABELER_YML \in files.present) =>
            \A w \in Elements(files'.workspace) :
              /\ LabelKey(w) \in DOMAIN files'.labeler
              /\ files'.labeler[LabelKey(w)] = LabelGlobs(w)]_vars

\* C20 witness: add stripe-connect completed; labeler.yml has the new label
\* and still has the label documentation, and the label of openexchange
\* that had been extended by hand is ['openexchange/**'] again.
C20_Witness ==
  /\ last = [cmd |-> "add", name |-> "stripe-connect"]
  /\ exit = "ok"
  /\ LABELER_YML \in files.present
  /\ LabelKey("stripe-connect") \in DOMAIN files.labeler
  /\ "documentation" \in DOMAIN files.labeler
  /\ LabelKey("openexchange") \in DOMAIN files.labeler
  /\ files.labeler[LabelKey("openexchange")] = LabelGlobs("openexchange")

\* C24: a Surepass response whose HTTP status is not 200, or whose body has
\* a status_code other than 200, is never returned to the caller as a
\* result, whatever the body says under success.
C24_FailureStatusNeverReturned ==
  (/\ Answered("Surepass")
   /\ \/ transport.resp.status # 200
      \/ /\ Prop(transport.resp.body, "status_code").t = "number"
         /\ Prop(transport.resp.body, "status_code") # Num(200)) =>
    outcome.kind = "throw"

\* C25: whenever the response handler of a Surepass operation throws, what
\* it throws is the SurepassError it set out to build, and the metadata of
\* that error has a defined value for every variable of the message of its
\* code.
C25_TemplateVariablesSupplied ==
  (Answered("Surepass") /\ handled.kind = "throw") =>
    /\ IsDomainError(handled.err, "Surepass")
    /\ \A k \in TemplateVariables("Surepass", handled.err.code) :
         Get(handled.err.context, k) # Absent

\* C21: an addWorkspace whose name does not match the workspace-name pattern,
\* or is already listed in root deno.json, throws, and no file and no
\* directory is created or modified by that run.
C21_InvalidAddTouchesNothing ==
  [][(/\ runs' = runs + 1
      /\ last'.cmd = "add"
      /\ \/ ~MatchesNamePattern(last'.name)
         \/ last'.name \in Listed) =>
       (exit' = "error" /\ files' = files /\ dirs' = dirs)]_vars

\* An addWorkspace of a listed name has thrown.
C21_Witness ==
  /\ last.cmd = "add"
  /\ last.name \in Listed
  /\ exit = "error"
  /\ ~changed
  /\ runs > 0

\* C29: addWorkspace of a name whose directory already exists leaves the
\* deno.json, mod.ts, README.md and .docs content of that directory as they
\* were.
C29_ExistingFilesKept ==
  [][(/\ runs' = runs + 1
      /\ last'.cmd = "add"
      /\ last'.name \in DOMAIN dirs) =>
       /\ last'.name \in DOMAIN dirs'
       /\ dirs'[last'.name].denoJson = dirs[last'.name].denoJson
       /\ dirs'[last'.name].mod = dirs[last'.name].mod
       /\ dirs'[last'.name].readme = dirs[last'.name].readme
       /\ dirs'[last'.name].docs = dirs[last'.name].docs]_vars

\* The options of a dropdown that held 'Other' are in order: 'Other' once
\* and last, the other options sorted.
OptionsOrdered(list) ==
  LET others == Without(list, "Other")
  IN  /\ Len(list) = Len(others) + 1
      /\ list[Len(list)] = "Other"
      /\ others = Sort(others)

\* A run leaves the dropdown of every issue template that held 'Other' in
\* order.
TemplatesOrdered ==
  \A t \in DOMAIN files.options :
    (t \in files.present /\ Includes(files.options[t], "Other")) =>
      OptionsOrdered(files'.options[t])

ReflectedBy(f, cmd, name) ==
  LET holds ==
        {Includes(f.workspace, name)}
          \cup {(LabelKey(name) \in DOMAIN f.labeler) : x \in {LABELER_YML} \cap f.present}
          \cup {Includes(f.scopes, name) : x \in {PR_TITLE_YML} \cap f.present}
          \cup {Includes(f.options[t], name) : t \in DOMAIN f.options \cap f.present}
          \cup {Includes(f.release, name) : x \in {MANUAL_RELEASE_YML} \cap f.present}
          \cup {(\E c \in Elements(f.components) : c.component_id = name) :
                  x \in {CODECOV_YML} \cap f.present}
          \cup {(name \in DOMAIN f.flags) : x \in {CODECOV_YML} \cap f.present}
  IN  {h = (cmd = "add") : h \in holds}

\* The run that ends got past the validation of its name and then failed.
FailedPartWay ==
  /\ runs' = runs + 1
  /\ last'.cmd \in {"add", "remove"}
  /\ exit' = "error"
  /\ MatchesNamePattern(last'.name)
  /\ (last'.cmd = "remove") = Includes(files.workspace, last'.name)

\* C27: when addWorkspace or removeWorkspace fails part-way, from files that
\* agreed about the name, root deno.json and the configuration files still
\* agree: all of them reflect the change or none of them does.
C27_FailureLeavesFilesConsistent ==
  [][(/\ FailedPartWay
      /\ ReflectedBy(files, last'.cmd, last'.name) = {FALSE}) =>
       ReflectedBy(files', last'.cmd, last'.name) \in {{TRUE}, {FALSE}}]_vars

\* Each configuration file that exists holds the entries of the workspaces
\* root deno.json lists, no more and no fewer.
Mirrored ==
  /\ LABELER_YML \in files.present => Labelled = Listed
  /\ PR_TITLE_YML \in files.present => Scoped = Listed
  /\ \A t \in DOMAIN files.options :
       t \in files.present => Offered(t) = Listed
  /\ MANUAL_RELEASE_YML \in files.present => Releasable = Listed
  /\ CODECOV_YML \in files.present => Covered = Listed /\ Flagged = Listed

StepIndex(step) ==
  IF \E i \in DOMAIN pub.steps : pub.steps[i] = step
  THEN CHOOSE i \in DOMAIN pub.steps : pub.steps[i] = step
  ELSE 0

\* C22: unless --skip-tests is given, the publish step runs only when the
\* tests passed and the type check succeeded.
C22_PublishOnlyAfterPassingTests ==
  (StepIndex("publish") > 0 /\ ~pub.options.skipTests) =>
    (pub.testsPass = "pass" /\ pub.typeCheckPass = "pass")

\* C23: publishWorkspace validates the workspace, then tests and type
\* checks, then bumps the version, then updates the changelog, then
\* publishes: the version is bumped and the changelog written only after
\* testing has run.
C23_DocumentedStepOrder ==
  /\ (StepIndex("bump") > 0 /\ ~pub.options.skipTests) =>
       /\ 0 < StepIndex("test") /\ StepIndex("test") < StepIndex("bump")
       /\ 0 < StepIndex("check") /\ StepIndex("check") < StepIndex("bump")
  /\ StepIndex("changelog") > 0 =>
       /\ 0 < StepIndex("bump")
       /\ StepIndex("bump") < StepIndex("changelog")
  /\ StepIndex("publish") > 0 =>
       /\ 0 < StepIndex("changelog")
       /\ StepIndex("changelog") < StepIndex("publish")

\* C28: after a failed publish step, and after a --dry-run, the version in
\* the deno.json of the workspace and its CHANGELOG.md are what they were
\* before the run.
C28_UnpublishedRunChangesNothing ==
  (/\ StepIndex("publish") > 0
   /\ pub.pc = "failed" \/ pub.options.dryRun) =>
    /\ dirs[pub.workspace].denoJson.version = pub.before.version
    /\ dirs[pub.workspace].changelog = pub.before.changelog

====
